---- MODULE Spec2Model ----
(***************************************************************************)
(* Infinite-wiki: the topic-resolution cycle of App (src/App.tsx), its     *)
(* navigation handlers and the content generation client                   *)
(* (services/geminiService, concatenated into src/App.tsx).                *)
(*                                                                         *)
(* JavaScript strings are sequences of one-character strings, so that      *)
(* trim, toLowerCase, includes and split are computed, not assumed.        *)
(* JSON values are tagged records [t, v]; v is always a sequence.          *)
(***************************************************************************)
EXTENDS Integers, Sequences, FiniteSets, TLC

VARIABLES
  history,           \* useState<string[]>(['Hypertext'])
  content,           \* useState<DefinitionData | ComparisonData | null>
  isLoading,         \* useState<boolean>(true)
  error,             \* useState<string | null>
  asciiArt,          \* useState<AsciiArtData | null>
  temperature,       \* useState<number>(0.4), in tenths
  ambiguityOptions,  \* useState<Meaning[] | null>
  apiKey,            \* process.env.API_KEY is set
  cycles,            \* one record per run of the effect (fetchContent closure)
  calls,             \* invocations of the four client operations
  microtasks,        \* promise reactions already queued (run before any event)
  lastEvent,         \* the handler or continuation that ran last
  probe,             \* a call of one function in isolation: arguments, result
  pinnedItems,       \* useState<PinnedItem[]>([])
  isPinboardVisible  \* useState(false)

vars == <<history, content, isLoading, error, asciiArt, temperature,
          ambiguityOptions, apiKey, cycles, calls, microtasks, lastEvent,
          probe, pinnedItems, isPinboardVisible>>

\* The state of the pinboard.
pinVars == <<pinnedItems, isPinboardVisible>>

\* The state of the application, without the record of isolated calls.
appVars == <<history, content, isLoading, error, asciiArt, temperature,
             ambiguityOptions, apiKey, cycles, calls, microtasks, lastEvent>>

visible == <<content, isLoading, error, asciiArt, ambiguityOptions>>

-----------------------------------------------------------------------------
(* Bounds of the model.                                                    *)

\* Runs of the resolution effect in one behaviour.
MaxCycles == 3

\* Number of words of PREDEFINED_WORDS kept in the vocabulary.
VocabSize == 2

\* Number of items the pinboard holds at most, and the readings of the clock.
MaxPins == 2
MaxTime == 2
\* Number of resolution cycles that searches and random picks may start
\* beside the pinboard.
MaxPinCycles == 2

\* Length of the longest topic createFallbackArt is called with.
MaxTopicLen == 22

-----------------------------------------------------------------------------
(* JavaScript strings.                                                     *)

\* A string is the sequence of its UTF-16 code units.  A code unit is written
\* as a string of one character when it is a printable ASCII character other
\* than the grave accent, or one of tab, line feed, vertical tab, form feed
\* and carriage return, and as its name "U+XXXX" (four hexadecimal digits,
\* upper case) otherwise.
\* The code units 32..95 and 97..126, in order.
Printable ==
  " !\"#$%&'()*+,-./0123456789:;<=>?@ABCDEFGHIJKLMNOPQRSTUVWXYZ[\\]^_"
    \o "abcdefghijklmnopqrstuvwxyz{|}~"

\* String.prototype.charCodeAt: the number of a code unit.
codeUnit(c) ==
  LET hex(k) == (CHOOSE d \in 1..16 :
                   SubSeq("0123456789ABCDEF", d, d) = SubSeq(c, k, k)) - 1
      at == CHOOSE k \in 1..Len(Printable) : SubSeq(Printable, k, k) = c
  IN IF Len(c) = 6
       THEN 4096 * hex(3) + 256 * hex(4) + 16 * hex(5) + hex(6)
     ELSE IF c = "\t" THEN 9
     ELSE IF c = "\n" THEN 10
     ELSE IF c = "" THEN 11
     ELSE IF c = "\f" THEN 12
     ELSE IF c = "\r" THEN 13
     ELSE IF at <= 64 THEN 31 + at ELSE 32 + at

\* String.fromCharCode: the code unit of a number.
fromCharCode(n) ==
  LET hex(d) == SubSeq("0123456789ABCDEF", d + 1, d + 1)
  IN IF n \in 32..95 THEN SubSeq(Printable, n - 31, n - 31)
     ELSE IF n \in 97..126 THEN SubSeq(Printable, n - 32, n - 32)
     ELSE IF n = 9 THEN "\t"
     ELSE IF n = 10 THEN "\n"
     ELSE IF n = 11 THEN ""
     ELSE IF n = 12 THEN "\f"
     ELSE IF n = 13 THEN "\r"
     ELSE "U+" \o hex(n \div 4096) \o hex((n \div 256) % 16)
               \o hex((n \div 16) % 16) \o hex(n % 16)

\* The code points of a string: a high surrogate followed by a low surrogate
\* is one code point, every other code unit is its own.
RECURSIVE codePoints(_)
codePoints(s) ==
  IF s = <<>> THEN <<>>
  ELSE IF /\ Len(s) >= 2
          /\ codeUnit(s[1]) \in 55296..56319
          /\ codeUnit(s[2]) \in 56320..57343
    THEN <<65536 + 1024 * (codeUnit(s[1]) - 55296) + (codeUnit(s[2]) - 56320)>>
           \o codePoints(SubSeq(s, 3, Len(s)))
  ELSE <<codeUnit(s[1])>> \o codePoints(Tail(s))

\* The code units of a sequence of code points.
RECURSIVE codeUnits(_)
codeUnits(p) ==
  IF p = <<>> THEN <<>>
  ELSE IF p[1] >= 65536
    THEN <<fromCharCode(55296 + ((p[1] - 65536) \div 1024)),
           fromCharCode(56320 + ((p[1] - 65536) % 1024))>> \o codeUnits(Tail(p))
  ELSE <<fromCharCode(p[1])>> \o codeUnits(Tail(p))

\* The simple lowercase mappings of the Unicode character database (version
\* 17.0.0): every code point from..to, in steps of step, is mapped to itself
\* plus delta; rows are <<from, to, step, delta>>.
LowerRanges ==
  {<<65, 90, 1, 32>>, <<192, 214, 1, 32>>, <<216, 222, 1, 32>>,
   <<256, 302, 2, 1>>, <<306, 310, 2, 1>>, <<313, 327, 2, 1>>,
   <<330, 374, 2, 1>>, <<376, 376, 1, -121>>, <<377, 381, 2, 1>>,
   <<385, 385, 1, 210>>, <<386, 388, 2, 1>>, <<390, 390, 1, 206>>,
   <<391, 391, 1, 1>>, <<393, 394, 1, 205>>, <<395, 395, 1, 1>>,
   <<398, 398, 1, 79>>, <<399, 399, 1, 202>>, <<400, 400, 1, 203>>,
   <<401, 401, 1, 1>>, <<403, 403, 1, 205>>, <<404, 404, 1, 207>>,
   <<406, 406, 1, 211>>, <<407, 407, 1, 209>>, <<408, 408, 1, 1>>,
   <<412, 412, 1, 211>>, <<413, 413, 1, 213>>, <<415, 415, 1, 214>>,
   <<416, 420, 2, 1>>, <<422, 422, 1, 218>>, <<423, 423, 1, 1>>,
   <<425, 425, 1, 218>>, <<428, 428, 1, 1>>, <<430, 430, 1, 218>>,
   <<431, 431, 1, 1>>, <<433, 434, 1, 217>>, <<435, 437, 2, 1>>,
   <<439, 439, 1, 219>>, <<440, 440, 1, 1>>, <<444, 444, 1, 1>>,
   <<452, 452, 1, 2>>, <<453, 453, 1, 1>>, <<455, 455, 1, 2>>,
   <<456, 456, 1, 1>>, <<458, 458, 1, 2>>, <<459, 475, 2, 1>>,
   <<478, 494, 2, 1>>, <<497, 497, 1, 2>>, <<498, 500, 2, 1>>,
   <<502, 502, 1, -97>>, <<503, 503, 1, -56>>, <<504, 542, 2, 1>>,
   <<544, 544, 1, -130>>, <<546, 562, 2, 1>>, <<570, 570, 1, 10795>>,
   <<571, 571, 1, 1>>, <<573, 573, 1, -163>>, <<574, 574, 1, 10792>>,
   <<577, 577, 1, 1>>, <<579, 579, 1, -195>>, <<580, 580, 1, 69>>,
   <<581, 581, 1, 71>>, <<582, 590, 2, 1>>, <<880, 882, 2, 1>>,
   <<886, 886, 1, 1>>, <<895, 895, 1, 116>>, <<902, 902, 1, 38>>,
   <<904, 906, 1, 37>>, <<908, 908, 1, 64>>, <<910, 911, 1, 63>>,
   <<913, 929, 1, 32>>, <<932, 939, 1, 32>>, <<975, 975, 1, 8>>,
   <<984, 1006, 2, 1>>, <<1012, 1012, 1, -60>>, <<1015, 1015, 1, 1>>,
   <<1017, 1017, 1, -7>>, <<1018, 1018, 1, 1>>, <<1021, 1023, 1, -130>>,
   <<1024, 1039, 1, 80>>, <<1040, 1071, 1, 32>>, <<1120, 1152, 2, 1>>,
   <<1162, 1214, 2, 1>>, <<1216, 1216, 1, 15>>, <<1217, 1229, 2, 1>>,
   <<1232, 1326, 2, 1>>, <<1329, 1366, 1, 48>>, <<4256, 4293, 1, 7264>>,
   <<4295, 4295, 1, 7264>>, <<4301, 4301, 1, 7264>>,
   <<5024, 5103, 1, 38864>>, <<5104, 5109, 1, 8>>, <<7305, 7305, 1, 1>>,
   <<7312, 7354, 1, -3008>>, <<7357, 7359, 1, -3008>>, <<7680, 7828, 2, 1>>,
   <<7838, 7838, 1, -7615>>, <<7840, 7934, 2, 1>>, <<7944, 7951, 1, -8>>,
   <<7960, 7965, 1, -8>>, <<7976, 7983, 1, -8>>, <<7992, 7999, 1, -8>>,
   <<8008, 8013, 1, -8>>, <<8025, 8031, 2, -8>>, <<8040, 8047, 1, -8>>,
   <<8072, 8079, 1, -8>>, <<8088, 8095, 1, -8>>, <<8104, 8111, 1, -8>>,
   <<8120, 8121, 1, -8>>, <<8122, 8123, 1, -74>>, <<8124, 8124, 1, -9>>,
   <<8136, 8139, 1, -86>>, <<8140, 8140, 1, -9>>, <<8152, 8153, 1, -8>>,
   <<8154, 8155, 1, -100>>, <<8168, 8169, 1, -8>>, <<8170, 8171, 1, -112>>,
   <<8172, 8172, 1, -7>>, <<8184, 8185, 1, -128>>, <<8186, 8187, 1, -126>>,
   <<8188, 8188, 1, -9>>, <<8486, 8486, 1, -7517>>, <<8490, 8490, 1, -8383>>,
   <<8491, 8491, 1, -8262>>, <<8498, 8498, 1, 28>>, <<8544, 8559, 1, 16>>,
   <<8579, 8579, 1, 1>>, <<9398, 9423, 1, 26>>, <<11264, 11311, 1, 48>>,
   <<11360, 11360, 1, 1>>, <<11362, 11362, 1, -10743>>,
   <<11363, 11363, 1, -3814>>, <<11364, 11364, 1, -10727>>,
   <<11367, 11371, 2, 1>>, <<11373, 11373, 1, -10780>>,
   <<11374, 11374, 1, -10749>>, <<11375, 11375, 1, -10783>>,
   <<11376, 11376, 1, -10782>>, <<11378, 11378, 1, 1>>,
   <<11381, 11381, 1, 1>>, <<11390, 11391, 1, -10815>>,
   <<11392, 11490, 2, 1>>, <<11499, 11501, 2, 1>>, <<11506, 11506, 1, 1>>,
   <<42560, 42604, 2, 1>>, <<42624, 42650, 2, 1>>, <<42786, 42798, 2, 1>>,
   <<42802, 42862, 2, 1>>, <<42873, 42875, 2, 1>>,
   <<42877, 42877, 1, -35332>>, <<42878, 42886, 2, 1>>,
   <<42891, 42891, 1, 1>>, <<42893, 42893, 1, -42280>>,
   <<42896, 42898, 2, 1>>, <<42902, 42920, 2, 1>>,
   <<42922, 42922, 1, -42308>>, <<42923, 42923, 1, -42319>>,
   <<42924, 42924, 1, -42315>>, <<42925, 42925, 1, -42305>>,
   <<42926, 42926, 1, -42308>>, <<42928, 42928, 1, -42258>>,
   <<42929, 42929, 1, -42282>>, <<42930, 42930, 1, -42261>>,
   <<42931, 42931, 1, 928>>, <<42932, 42946, 2, 1>>,
   <<42948, 42948, 1, -48>>, <<42949, 42949, 1, -42307>>,
   <<42950, 42950, 1, -35384>>, <<42951, 42953, 2, 1>>,
   <<42955, 42955, 1, -42343>>, <<42956, 42970, 2, 1>>,
   <<42972, 42972, 1, -42561>>, <<42997, 42997, 1, 1>>,
   <<65313, 65338, 1, 32>>, <<66560, 66599, 1, 40>>, <<66736, 66771, 1, 40>>,
   <<66928, 66938, 1, 39>>, <<66940, 66954, 1, 39>>, <<66956, 66962, 1, 39>>,
   <<66964, 66965, 1, 39>>, <<68736, 68786, 1, 64>>, <<68944, 68965, 1, 32>>,
   <<71840, 71871, 1, 32>>, <<93760, 93791, 1, 32>>, <<93856, 93880, 1, 27>>,
   <<125184, 125217, 1, 34>>}

\* The cased letters that are not case-ignorable, as rows <<from, to>>.
CasedRanges ==
  {<<65, 90>>, <<97, 122>>, <<170, 170>>, <<181, 181>>, <<186, 186>>,
   <<192, 214>>, <<216, 246>>, <<248, 442>>, <<444, 447>>, <<452, 659>>,
   <<662, 687>>, <<880, 883>>, <<886, 887>>, <<891, 893>>, <<895, 895>>,
   <<902, 902>>, <<904, 906>>, <<908, 908>>, <<910, 929>>, <<931, 1013>>,
   <<1015, 1153>>, <<1162, 1327>>, <<1329, 1366>>, <<1376, 1416>>,
   <<4256, 4293>>, <<4295, 4295>>, <<4301, 4301>>, <<4304, 4346>>,
   <<4349, 4351>>, <<5024, 5109>>, <<5112, 5117>>, <<7296, 7306>>,
   <<7312, 7354>>, <<7357, 7359>>, <<7424, 7467>>, <<7531, 7543>>,
   <<7545, 7578>>, <<7680, 7957>>, <<7960, 7965>>, <<7968, 8005>>,
   <<8008, 8013>>, <<8016, 8023>>, <<8025, 8025>>, <<8027, 8027>>,
   <<8029, 8029>>, <<8031, 8061>>, <<8064, 8116>>, <<8118, 8124>>,
   <<8126, 8126>>, <<8130, 8132>>, <<8134, 8140>>, <<8144, 8147>>,
   <<8150, 8155>>, <<8160, 8172>>, <<8178, 8180>>, <<8182, 8188>>,
   <<8450, 8450>>, <<8455, 8455>>, <<8458, 8467>>, <<8469, 8469>>,
   <<8473, 8477>>, <<8484, 8484>>, <<8486, 8486>>, <<8488, 8488>>,
   <<8490, 8493>>, <<8495, 8500>>, <<8505, 8505>>, <<8508, 8511>>,
   <<8517, 8521>>, <<8526, 8526>>, <<8544, 8575>>, <<8579, 8580>>,
   <<9398, 9449>>, <<11264, 11387>>, <<11390, 11492>>, <<11499, 11502>>,
   <<11506, 11507>>, <<11520, 11557>>, <<11559, 11559>>, <<11565, 11565>>,
   <<42560, 42605>>, <<42624, 42651>>, <<42786, 42863>>, <<42865, 42887>>,
   <<42891, 42894>>, <<42896, 42972>>, <<42997, 42998>>, <<43002, 43002>>,
   <<43824, 43866>>, <<43872, 43880>>, <<43888, 43967>>, <<64256, 64262>>,
   <<64275, 64279>>, <<65313, 65338>>, <<65345, 65370>>, <<66560, 66639>>,
   <<66736, 66771>>, <<66776, 66811>>, <<66928, 66938>>, <<66940, 66954>>,
   <<66956, 66962>>, <<66964, 66965>>, <<66967, 66977>>, <<66979, 66993>>,
   <<66995, 67001>>, <<67003, 67004>>, <<68736, 68786>>, <<68800, 68850>>,
   <<68944, 68965>>, <<68976, 68997>>, <<71840, 71903>>, <<93760, 93823>>,
   <<93856, 93880>>, <<93883, 93907>>, <<119808, 119892>>,
   <<119894, 119964>>, <<119966, 119967>>, <<119970, 119970>>,
   <<119973, 119974>>, <<119977, 119980>>, <<119982, 119993>>,
   <<119995, 119995>>, <<119997, 120003>>, <<120005, 120069>>,
   <<120071, 120074>>, <<120077, 120084>>, <<120086, 120092>>,
   <<120094, 120121>>, <<120123, 120126>>, <<120128, 120132>>,
   <<120134, 120134>>, <<120138, 120144>>, <<120146, 120485>>,
   <<120488, 120512>>, <<120514, 120538>>, <<120540, 120570>>,
   <<120572, 120596>>, <<120598, 120628>>, <<120630, 120654>>,
   <<120656, 120686>>, <<120688, 120712>>, <<120714, 120744>>,
   <<120746, 120770>>, <<120772, 120779>>, <<122624, 122633>>,
   <<122635, 122654>>, <<122661, 122666>>, <<125184, 125251>>,
   <<127280, 127305>>, <<127312, 127337>>, <<127344, 127369>>}

\* The case-ignorable characters, as rows <<from, to>>.
CaseIgnorableRanges ==
  {<<39, 39>>, <<46, 46>>, <<58, 58>>, <<94, 94>>, <<96, 96>>, <<168, 168>>,
   <<173, 173>>, <<175, 175>>, <<180, 180>>, <<183, 184>>, <<688, 879>>,
   <<884, 885>>, <<890, 890>>, <<900, 901>>, <<903, 903>>, <<1155, 1161>>,
   <<1369, 1369>>, <<1375, 1375>>, <<1425, 1469>>, <<1471, 1471>>,
   <<1473, 1474>>, <<1476, 1477>>, <<1479, 1479>>, <<1524, 1524>>,
   <<1536, 1541>>, <<1552, 1562>>, <<1564, 1564>>, <<1600, 1600>>,
   <<1611, 1631>>, <<1648, 1648>>, <<1750, 1757>>, <<1759, 1768>>,
   <<1770, 1773>>, <<1807, 1807>>, <<1809, 1809>>, <<1840, 1866>>,
   <<1958, 1968>>, <<2027, 2037>>, <<2042, 2042>>, <<2045, 2045>>,
   <<2070, 2093>>, <<2137, 2139>>, <<2184, 2184>>, <<2192, 2193>>,
   <<2199, 2207>>, <<2249, 2306>>, <<2362, 2362>>, <<2364, 2364>>,
   <<2369, 2376>>, <<2381, 2381>>, <<2385, 2391>>, <<2402, 2403>>,
   <<2417, 2417>>, <<2433, 2433>>, <<2492, 2492>>, <<2497, 2500>>,
   <<2509, 2509>>, <<2530, 2531>>, <<2558, 2558>>, <<2561, 2562>>,
   <<2620, 2620>>, <<2625, 2626>>, <<2631, 2632>>, <<2635, 2637>>,
   <<2641, 2641>>, <<2672, 2673>>, <<2677, 2677>>, <<2689, 2690>>,
   <<2748, 2748>>, <<2753, 2757>>, <<2759, 2760>>, <<2765, 2765>>,
   <<2786, 2787>>, <<2810, 2815>>, <<2817, 2817>>, <<2876, 2876>>,
   <<2879, 2879>>, <<2881, 2884>>, <<2893, 2893>>, <<2901, 2902>>,
   <<2914, 2915>>, <<2946, 2946>>, <<3008, 3008>>, <<3021, 3021>>,
   <<3072, 3072>>, <<3076, 3076>>, <<3132, 3132>>, <<3134, 3136>>,
   <<3142, 3144>>, <<3146, 3149>>, <<3157, 3158>>, <<3170, 3171>>,
   <<3201, 3201>>, <<3260, 3260>>, <<3263, 3263>>, <<3270, 3270>>,
   <<3276, 3277>>, <<3298, 3299>>, <<3328, 3329>>, <<3387, 3388>>,
   <<3393, 3396>>, <<3405, 3405>>, <<3426, 3427>>, <<3457, 3457>>,
   <<3530, 3530>>, <<3538, 3540>>, <<3542, 3542>>, <<3633, 3633>>,
   <<3636, 3642>>, <<3654, 3662>>, <<3761, 3761>>, <<3764, 3772>>,
   <<3782, 3782>>, <<3784, 3790>>, <<3864, 3865>>, <<3893, 3893>>,
   <<3895, 3895>>, <<3897, 3897>>, <<3953, 3966>>, <<3968, 3972>>,
   <<3974, 3975>>, <<3981, 3991>>, <<3993, 4028>>, <<4038, 4038>>,
   <<4141, 4144>>, <<4146, 4151>>, <<4153, 4154>>, <<4157, 4158>>,
   <<4184, 4185>>, <<4190, 4192>>, <<4209, 4212>>, <<4226, 4226>>,
   <<4229, 4230>>, <<4237, 4237>>, <<4253, 4253>>, <<4348, 4348>>,
   <<4957, 4959>>, <<5906, 5908>>, <<5938, 5939>>, <<5970, 5971>>,
   <<6002, 6003>>, <<6068, 6069>>, <<6071, 6077>>, <<6086, 6086>>,
   <<6089, 6099>>, <<6103, 6103>>, <<6109, 6109>>, <<6155, 6159>>,
   <<6211, 6211>>, <<6277, 6278>>, <<6313, 6313>>, <<6432, 6434>>,
   <<6439, 6440>>, <<6450, 6450>>, <<6457, 6459>>, <<6679, 6680>>,
   <<6683, 6683>>, <<6742, 6742>>, <<6744, 6750>>, <<6752, 6752>>,
   <<6754, 6754>>, <<6757, 6764>>, <<6771, 6780>>, <<6783, 6783>>,
   <<6823, 6823>>, <<6832, 6877>>, <<6880, 6891>>, <<6912, 6915>>,
   <<6964, 6964>>, <<6966, 6970>>, <<6972, 6972>>, <<6978, 6978>>,
   <<7019, 7027>>, <<7040, 7041>>, <<7074, 7077>>, <<7080, 7081>>,
   <<7083, 7085>>, <<7142, 7142>>, <<7144, 7145>>, <<7149, 7149>>,
   <<7151, 7153>>, <<7212, 7219>>, <<7222, 7223>>, <<7288, 7293>>,
   <<7376, 7378>>, <<7380, 7392>>, <<7394, 7400>>, <<7405, 7405>>,
   <<7412, 7412>>, <<7416, 7417>>, <<7468, 7530>>, <<7544, 7544>>,
   <<7579, 7679>>, <<8125, 8125>>, <<8127, 8129>>, <<8141, 8143>>,
   <<8157, 8159>>, <<8173, 8175>>, <<8189, 8190>>, <<8203, 8207>>,
   <<8216, 8217>>, <<8228, 8228>>, <<8231, 8231>>, <<8234, 8238>>,
   <<8288, 8292>>, <<8294, 8303>>, <<8305, 8305>>, <<8319, 8319>>,
   <<8336, 8348>>, <<8400, 8432>>, <<11388, 11389>>, <<11503, 11505>>,
   <<11631, 11631>>, <<11647, 11647>>, <<11744, 11775>>, <<11823, 11823>>,
   <<12293, 12293>>, <<12330, 12333>>, <<12337, 12341>>, <<12347, 12347>>,
   <<12441, 12446>>, <<12540, 12542>>, <<40981, 40981>>, <<42232, 42237>>,
   <<42508, 42508>>, <<42607, 42610>>, <<42612, 42621>>, <<42623, 42623>>,
   <<42652, 42655>>, <<42736, 42737>>, <<42752, 42785>>, <<42864, 42864>>,
   <<42888, 42890>>, <<42993, 42996>>, <<43000, 43001>>, <<43010, 43010>>,
   <<43014, 43014>>, <<43019, 43019>>, <<43045, 43046>>, <<43052, 43052>>,
   <<43204, 43205>>, <<43232, 43249>>, <<43263, 43263>>, <<43302, 43309>>,
   <<43335, 43345>>, <<43392, 43394>>, <<43443, 43443>>, <<43446, 43449>>,
   <<43452, 43453>>, <<43471, 43471>>, <<43493, 43494>>, <<43561, 43566>>,
   <<43569, 43570>>, <<43573, 43574>>, <<43587, 43587>>, <<43596, 43596>>,
   <<43632, 43632>>, <<43644, 43644>>, <<43696, 43696>>, <<43698, 43700>>,
   <<43703, 43704>>, <<43710, 43711>>, <<43713, 43713>>, <<43741, 43741>>,
   <<43756, 43757>>, <<43763, 43764>>, <<43766, 43766>>, <<43867, 43871>>,
   <<43881, 43883>>, <<44005, 44005>>, <<44008, 44008>>, <<44013, 44013>>,
   <<64286, 64286>>, <<64434, 64450>>, <<65024, 65039>>, <<65043, 65043>>,
   <<65056, 65071>>, <<65106, 65106>>, <<65109, 65109>>, <<65279, 65279>>,
   <<65287, 65287>>, <<65294, 65294>>, <<65306, 65306>>, <<65342, 65342>>,
   <<65344, 65344>>, <<65392, 65392>>, <<65438, 65439>>, <<65507, 65507>>,
   <<65529, 65531>>, <<66045, 66045>>, <<66272, 66272>>, <<66422, 66426>>,
   <<67456, 67461>>, <<67463, 67504>>, <<67506, 67514>>, <<68097, 68099>>,
   <<68101, 68102>>, <<68108, 68111>>, <<68152, 68154>>, <<68159, 68159>>,
   <<68325, 68326>>, <<68900, 68903>>, <<68942, 68942>>, <<68969, 68973>>,
   <<68975, 68975>>, <<69291, 69292>>, <<69317, 69317>>, <<69370, 69375>>,
   <<69446, 69456>>, <<69506, 69509>>, <<69633, 69633>>, <<69688, 69702>>,
   <<69744, 69744>>, <<69747, 69748>>, <<69759, 69761>>, <<69811, 69814>>,
   <<69817, 69818>>, <<69821, 69821>>, <<69826, 69826>>, <<69837, 69837>>,
   <<69888, 69890>>, <<69927, 69931>>, <<69933, 69940>>, <<70003, 70003>>,
   <<70016, 70017>>, <<70070, 70078>>, <<70089, 70092>>, <<70095, 70095>>,
   <<70191, 70193>>, <<70196, 70196>>, <<70198, 70199>>, <<70206, 70206>>,
   <<70209, 70209>>, <<70367, 70367>>, <<70371, 70378>>, <<70400, 70401>>,
   <<70459, 70460>>, <<70464, 70464>>, <<70502, 70508>>, <<70512, 70516>>,
   <<70587, 70592>>, <<70606, 70606>>, <<70608, 70608>>, <<70610, 70610>>,
   <<70625, 70626>>, <<70712, 70719>>, <<70722, 70724>>, <<70726, 70726>>,
   <<70750, 70750>>, <<70835, 70840>>, <<70842, 70842>>, <<70847, 70848>>,
   <<70850, 70851>>, <<71090, 71093>>, <<71100, 71101>>, <<71103, 71104>>,
   <<71132, 71133>>, <<71219, 71226>>, <<71229, 71229>>, <<71231, 71232>>,
   <<71339, 71339>>, <<71341, 71341>>, <<71344, 71349>>, <<71351, 71351>>,
   <<71453, 71453>>, <<71455, 71455>>, <<71458, 71461>>, <<71463, 71467>>,
   <<71727, 71735>>, <<71737, 71738>>, <<71995, 71996>>, <<71998, 71998>>,
   <<72003, 72003>>, <<72148, 72151>>, <<72154, 72155>>, <<72160, 72160>>,
   <<72193, 72202>>, <<72243, 72248>>, <<72251, 72254>>, <<72263, 72263>>,
   <<72273, 72278>>, <<72281, 72283>>, <<72330, 72342>>, <<72344, 72345>>,
   <<72544, 72544>>, <<72546, 72548>>, <<72550, 72550>>, <<72752, 72758>>,
   <<72760, 72765>>, <<72767, 72767>>, <<72850, 72871>>, <<72874, 72880>>,
   <<72882, 72883>>, <<72885, 72886>>, <<73009, 73014>>, <<73018, 73018>>,
   <<73020, 73021>>, <<73023, 73029>>, <<73031, 73031>>, <<73104, 73105>>,
   <<73109, 73109>>, <<73111, 73111>>, <<73177, 73177>>, <<73459, 73460>>,
   <<73472, 73473>>, <<73526, 73530>>, <<73536, 73536>>, <<73538, 73538>>,
   <<73562, 73562>>, <<78896, 78912>>, <<78919, 78933>>, <<90398, 90409>>,
   <<90413, 90415>>, <<92912, 92916>>, <<92976, 92982>>, <<92992, 92995>>,
   <<93504, 93506>>, <<93547, 93548>>, <<94031, 94031>>, <<94095, 94111>>,
   <<94176, 94177>>, <<94179, 94180>>, <<94194, 94195>>, <<110576, 110579>>,
   <<110581, 110587>>, <<110589, 110590>>, <<113821, 113822>>,
   <<113824, 113827>>, <<118528, 118573>>, <<118576, 118598>>,
   <<119143, 119145>>, <<119155, 119170>>, <<119173, 119179>>,
   <<119210, 119213>>, <<119362, 119364>>, <<121344, 121398>>,
   <<121403, 121452>>, <<121461, 121461>>, <<121476, 121476>>,
   <<121499, 121503>>, <<121505, 121519>>, <<122880, 122886>>,
   <<122888, 122904>>, <<122907, 122913>>, <<122915, 122916>>,
   <<122918, 122922>>, <<122928, 122989>>, <<123023, 123023>>,
   <<123184, 123197>>, <<123566, 123566>>, <<123628, 123631>>,
   <<124139, 124143>>, <<124398, 124399>>, <<124643, 124643>>,
   <<124646, 124646>>, <<124654, 124655>>, <<124661, 124661>>,
   <<124671, 124671>>, <<125136, 125142>>, <<125252, 125259>>,
   <<127995, 127999>>, <<917505, 917505>>, <<917536, 917631>>,
   <<917760, 917999>>}

LowerOf == [A |-> "a", B |-> "b", C |-> "c", D |-> "d", E |-> "e", F |-> "f",
            G |-> "g", H |-> "h", I |-> "i", J |-> "j", K |-> "k", L |-> "l",
            M |-> "m", N |-> "n", O |-> "o", P |-> "p", Q |-> "q", R |-> "r",
            S |-> "s", T |-> "t", U |-> "u", V |-> "v", W |-> "w", X |-> "x",
            Y |-> "y", Z |-> "z"]

\* String.prototype.toLowerCase: the default case conversion of Unicode on the
\* code points of the string.  A string of ASCII characters is lowered letter
\* by letter; otherwise capital sigma (U+03A3) becomes the final sigma (U+03C2)
\* when a cased letter precedes it and none follows it, case-ignorable
\* characters aside, and the small sigma (U+03C3) elsewhere; capital I with dot
\* above (U+0130) becomes i followed by the combining dot above (U+0307); every
\* other code point is mapped by LowerRanges.  The result is that of a runtime
\* with the character database of Unicode 17.0.0; a runtime with an older one
\* does not know the letters added since.
toLowerCase(s) ==
  LET p == codePoints(s)
      within(c, ranges) == \E r \in ranges : r[1] <= c /\ c <= r[2]
      solid(j) == ~within(p[j], CaseIgnorableRanges)
      finalSigma(i) ==
        /\ \E j \in 1..(i - 1) :
             /\ solid(j) /\ within(p[j], CasedRanges)
             /\ \A k \in (j + 1)..(i - 1) : ~solid(k)
        /\ \A j \in (i + 1)..Len(p) :
             (solid(j) /\ \A k \in (i + 1)..(j - 1) : ~solid(k))
               => ~within(p[j], CasedRanges)
      maps(c, r) == r[1] <= c /\ c <= r[2] /\ (c - r[1]) % r[3] = 0
      lower(i) ==
        IF p[i] = 931 THEN <<IF finalSigma(i) THEN 962 ELSE 963>>
        ELSE IF p[i] = 304 THEN <<105, 775>>
        ELSE IF \E r \in LowerRanges : maps(p[i], r)
          THEN <<p[i] + (CHOOSE r \in LowerRanges : maps(p[i], r))[4]>>
        ELSE <<p[i]>>
      lowered[i \in 0..Len(p)] ==
        IF i = 0 THEN <<>> ELSE lowered[i - 1] \o lower(i)
  IN IF \A i \in DOMAIN s : Len(s[i]) = 1
       THEN [i \in 1..Len(s) |->
               IF s[i] \in DOMAIN LowerOf THEN LowerOf[s[i]] ELSE s[i]]
       ELSE codeUnits(lowered[Len(p)])

\* The characters String.prototype.trim strips: WhiteSpace and LineTerminator
\* of ECMAScript (tab, vertical tab, form feed, space, no-break space, byte
\* order mark, the space separators of Unicode; line feed, carriage return,
\* line separator, paragraph separator).
WhiteSpace ==
  {"\t", "", "\f", " ", "U+00A0", "U+FEFF",
   "U+1680", "U+2000", "U+2001", "U+2002", "U+2003", "U+2004", "U+2005",
   "U+2006", "U+2007", "U+2008", "U+2009", "U+200A", "U+202F", "U+205F",
   "U+3000",
   "\n", "\r", "U+2028", "U+2029"}

\* The characters the dot of a regular expression does not match: the line
\* terminators.
LineTerminators == {"\n", "\r", "U+2028", "U+2029"}

RECURSIVE trimStart(_)
trimStart(s) ==
  IF s # <<>> /\ Head(s) \in WhiteSpace THEN trimStart(Tail(s)) ELSE s

RECURSIVE trimEnd(_)
trimEnd(s) ==
  IF s # <<>> /\ s[Len(s)] \in WhiteSpace
    THEN trimEnd(SubSeq(s, 1, Len(s) - 1)) ELSE s

\* String.prototype.trim
trim(s) == trimEnd(trimStart(s))

\* String.prototype.includes
includes(s, sub) ==
  \E i \in 1..(Len(s) - Len(sub) + 1) : SubSeq(s, i, i + Len(sub) - 1) = sub

\* String.prototype.substring(0, n)
substring0(s, n) == SubSeq(s, 1, IF n < Len(s) THEN n ELSE Len(s))

\* String.prototype.repeat for a one-character string
repeat(ch, n) == [i \in 1..n |-> ch]

\* The literal the effect tests for: ' vs. '
Separator == <<" ", "v", "s", ".", " ">>

\* The regular expression / vs. /i matches at position i: a space, v, s (either
\* case), ANY character but a line terminator (the dot is not escaped), a space.
SplitRegexMatchesAt(s, i) ==
  /\ i >= 1 /\ i + 4 <= Len(s)
  /\ s[i] = " "
  /\ s[i + 1] \in {"v", "V"}
  /\ s[i + 2] \in {"s", "S"}
  /\ s[i + 3] \notin LineTerminators
  /\ s[i + 4] = " "

\* String.prototype.split(/ vs. /i): the pieces between successive matches.
RECURSIVE split(_)
split(s) ==
  IF \E i \in 1..Len(s) : SplitRegexMatchesAt(s, i)
    THEN LET i == CHOOSE k \in 1..Len(s) :
                    /\ SplitRegexMatchesAt(s, k)
                    /\ \A j \in 1..(k - 1) : ~SplitRegexMatchesAt(s, j)
         IN <<SubSeq(s, 1, i - 1)>> \o split(SubSeq(s, i + 5, Len(s)))
    ELSE <<s>>

-----------------------------------------------------------------------------
(* Topics and the vocabulary.                                              *)

\* useState<string[]>(['Hypertext'])
Hypertext == <<"H", "y", "p", "e", "r", "t", "e", "x", "t">>

Balance == <<"B", "a", "l", "a", "n", "c", "e">>
Harmony == <<"H", "a", "r", "m", "o", "n", "y">>
Discord == <<"D", "i", "s", "c", "o", "r", "d">>
Unity == <<"U", "n", "i", "t", "y">>

\* The head of the curated list; the model keeps its first VocabSize words.
PREDEFINED_WORDS == <<Balance, Harmony, Discord, Unity>>

RECURSIVE dedupe(_)
dedupe(ws) ==
  IF ws = <<>> THEN <<>>
  ELSE LET init == dedupe(SubSeq(ws, 1, Len(ws) - 1))
           last == ws[Len(ws)]
       IN IF \E i \in 1..Len(init) : init[i] = last THEN init
          ELSE Append(init, last)

\* [...new Set(PREDEFINED_WORDS)]
UNIQUE_WORDS == dedupe(SubSeq(PREDEFINED_WORDS, 1, VocabSize))

Stock == <<"S", "t", "o", "c", "k">>
StockFinance ==
  <<"S", "t", "o", "c", "k", " ", "(", "f", "i", "n", "a", "n", "c", "e", ")">>
StockInventory ==
  <<"S", "t", "o", "c", "k", " ", "(", "i", "n", "v", "e", "n", "t", "o", "r", "y", ")">>
Gravity == <<"G", "r", "a", "v", "i", "t", "y">>
Entropy == <<"E", "n", "t", "r", "o", "p", "y">>
\* "Gravity vs. Entropy"
GravityVsEntropy == Gravity \o Separator \o Entropy
\* "Ice vs, Tea vs. Fog": one separator, after a ' vs, ' that is not one
IceTea == <<"I", "c", "e", " ", "v", "s", ",", " ", "T", "e", "a">>
Fog == <<"F", "o", "g">>
IceTeaVsFog == IceTea \o Separator \o Fog

\* Arguments of navigateTo (search box, clicked word, chosen meaning).
NavTopics == {Stock, GravityVsEntropy, IceTeaVsFog}

\* Values of the temperature slider, in tenths (min 0.1, max 1.0, step 0.1).
Temperatures == {4, 7}

-----------------------------------------------------------------------------
(* JSON values of the service payloads.                                    *)

Undefined == [t |-> "undefined", v |-> <<>>]
Null == [t |-> "null", v |-> <<>>]
JBool(b) == [t |-> "boolean", v |-> <<b>>]
JNum(n) == [t |-> "number", v |-> <<n>>]
JStr(s) == [t |-> "string", v |-> s]
JArr(a) == [t |-> "array", v |-> a]

\* ToBoolean
truthy(x) ==
  CASE x.t \in {"undefined", "null"} -> FALSE
    [] x.t = "boolean" -> x.v[1]
    [] x.t = "number" -> x.v[1] # 0
    [] x.t = "string" -> x.v # <<>>
    [] OTHER -> TRUE

\* x?.length
optionalLength(x) ==
  IF x.t \in {"array", "string"} THEN JNum(Len(x.v)) ELSE Undefined

-----------------------------------------------------------------------------
(* Responses of ai.models.generateContent.  A response is rejected         *)
(* (transport failure) or fulfilled with a text; the text is described by  *)
(* its fence, its shape and, when it parses, the object it parses to.      *)
(* body: "prose" has no braces around it, "malformed" is brace-delimited   *)
(* but no JSON, "json" parses to value.                                    *)

Rejection(payload) ==
  [status |-> "rejected", fenced |-> FALSE, body |-> "prose", value |-> payload]
Text(fenced, body, payload) ==
  [status |-> "fulfilled", fenced |-> fenced, body |-> body, value |-> payload]

\* jsonStr.startsWith('{') && jsonStr.endsWith('}')
braceDelimited(r) == ~r.fenced /\ r.body \in {"malformed", "json"}

\* jsonStr.match(fenceRegex): the text inside a surrounding code fence
stripFence(r) == [r EXCEPT !.fenced = FALSE]

Fulfilled(x) == [ok |-> TRUE, value |-> <<x>>, message |-> <<>>]
Rejected(m) == [ok |-> FALSE, value |-> <<>>, message |-> <<m>>]

\* The text of an Error: a template, the topics it quotes, the cause appended.
Message(template, topics, cause) ==
  [template |-> template, topics |-> topics, cause |-> cause]

TransportMessage == "fetch failed"
NotJsonObjectMessage == "Response is not a valid JSON object"
SyntaxErrorMessage == "SyntaxError: Unexpected token in JSON"
MissingFieldsMessage == "JSON response is missing required fields."
MissingIsAmbiguousMessage ==
  "JSON response is missing required \"is_ambiguous\" field."

\* What the try block of a text operation throws before validating fields.
parseFailure(r) ==
  IF r.status = "rejected" THEN TransportMessage
  ELSE IF ~braceDelimited(r) THEN NotJsonObjectMessage
  ELSE IF r.body # "json" THEN SyntaxErrorMessage
  ELSE ""

\* --- checkForAmbiguity ---------------------------------------------------
AmbiguityConfigError == Message("API_KEY is not configured.", <<>>, "")

\* What the try block of checkForAmbiguity throws on response r, "" if nothing.
ambiguityFailure(r) ==
  IF parseFailure(r) # "" THEN parseFailure(r)
  ELSE IF r.value.is_ambiguous.t # "boolean" THEN MissingIsAmbiguousMessage
  ELSE ""

NotAmbiguous == [is_ambiguous |-> JBool(FALSE), meanings |-> Undefined]

\* Mutant: the catch block rethrows instead of returning "not ambiguous".
checkForAmbiguityRethrows(topic, r) ==
  IF ambiguityFailure(r) # ""
    THEN Rejected(Message(ambiguityFailure(r), <<>>, ""))
    ELSE Fulfilled(r.value)

\* Mutant: a parsed payload is returned without validating is_ambiguous.
checkForAmbiguityTrustsPayload(topic, r) ==
  IF parseFailure(r) # "" THEN Fulfilled(NotAmbiguous)
  ELSE Fulfilled(r.value)

\* checkForAmbiguity once the key is known to be set, on response r.
checkForAmbiguity(topic, r) ==
  IF ambiguityFailure(r) # "" THEN Fulfilled(NotAmbiguous)
  ELSE Fulfilled(r.value)

\* --- generateDefinition --------------------------------------------------
ContentConfigError ==
  Message("API_KEY is not configured. Please check your environment variables to continue.",
          <<>>, "")

\* Mutant: only the summary of the payload is validated.
definitionFailureSummaryOnly(r) ==
  IF parseFailure(r) # "" THEN parseFailure(r)
  ELSE IF ~truthy(r.value.summary) THEN MissingFieldsMessage
  ELSE ""

definitionFailure(r) ==
  IF parseFailure(r) # "" THEN parseFailure(r)
  ELSE IF ~truthy(r.value.summary) \/ ~truthy(r.value.key_concepts)
    THEN MissingFieldsMessage
  ELSE ""

\* Mutant: the key concepts of the payload are not carried into the result.
generateDefinitionDropsConcepts(topic, r) ==
  IF definitionFailure(r) # ""
    THEN Rejected(Message("Could not generate content for", <<topic>>,
                          definitionFailure(r)))
    ELSE Fulfilled([t |-> "definition",
                    v |-> <<[r.value EXCEPT !.key_concepts = JArr(<<>>)]>>])

generateDefinition(topic, r) ==
  IF definitionFailure(r) # ""
    THEN Rejected(Message("Could not generate content for", <<topic>>,
                          definitionFailure(r)))
    ELSE Fulfilled([t |-> "definition", v |-> <<r.value>>])

\* --- generateComparison --------------------------------------------------
comparisonFailure(r) ==
  IF parseFailure(r) # "" THEN parseFailure(r)
  ELSE IF \/ ~truthy(r.value.introduction) \/ ~truthy(r.value.similarities)
          \/ ~truthy(r.value.differences) \/ ~truthy(r.value.conclusion)
    THEN MissingFieldsMessage
  ELSE ""

generateComparison(topicA, topicB, r) ==
  IF comparisonFailure(r) # ""
    THEN Rejected(Message("Could not generate comparison for",
                          <<topicA, topicB>>, comparisonFailure(r)))
    ELSE Fulfilled([t |-> "comparison",
                    v |-> <<[topicA |-> topicA, topicB |-> topicB,
                             data |-> r.value]>>])

\* --- generateAsciiArt ----------------------------------------------------
ArtConfigError == Message("API_KEY is not configured.", <<>>, "")

\* const maxRetries = 1
maxRetries == 1

\* Mutant: an art string of white space only passes the validation.
asciiArtAttemptKeepsBlank(r) ==
  LET s == IF r.status = "fulfilled" /\ r.fenced THEN stripFence(r) ELSE r
  IN IF parseFailure(s) # "" THEN Rejected(Message(parseFailure(s), <<>>, ""))
     ELSE IF s.value.art.t # "string"
       THEN Rejected(Message("Invalid or empty ASCII art in response", <<>>, ""))
     ELSE Fulfilled([t |-> "AsciiArtData", v |-> s.value.art.v])

\* One pass of the retry loop's try block on response r.
asciiArtAttempt(r) ==
  LET s == IF r.status = "fulfilled" /\ r.fenced THEN stripFence(r) ELSE r
  IN IF parseFailure(s) # "" THEN Rejected(Message(parseFailure(s), <<>>, ""))
     ELSE IF s.value.art.t # "string" \/ trim(s.value.art.v) = <<>>
       THEN Rejected(Message("Invalid or empty ASCII art in response", <<>>, ""))
     ELSE Fulfilled([t |-> "AsciiArtData", v |-> s.value.art.v])

\* The retry loop from attempt on, given the response to each call: the
\* number of calls made and what the operation settles with.
RECURSIVE retryLoop(_, _)
retryLoop(attempt, responses) ==
  LET tried == asciiArtAttempt(responses[attempt])
  IN IF tried.ok THEN [calls |-> attempt, out |-> tried]
     ELSE IF attempt = maxRetries
       THEN [calls |-> attempt,
             out |-> Rejected(Message("Could not generate ASCII art after attempts",
                                      <<>>, tried.message[1].template))]
     ELSE retryLoop(attempt + 1, responses)

\* generateAsciiArt once the key is known to be set.
generateAsciiArt(topic, responses) == retryLoop(1, responses)

\* The box-drawing characters of the fallback art, by code point.
BoxTopLeft == "U+250C"
BoxTopRight == "U+2510"
BoxBottomLeft == "U+2514"
BoxBottomRight == "U+2518"
BoxHorizontal == "U+2500"
BoxVertical == "U+2502"

\* createFallbackArt
createFallbackArt(topic) ==
  LET displayableTopic ==
        IF Len(topic) > 20 THEN substring0(topic, 17) \o <<".", ".", ".">>
        ELSE topic
      paddedTopic == <<" ">> \o displayableTopic \o <<" ">>
      topBorder == <<BoxTopLeft>> \o repeat(BoxHorizontal, Len(paddedTopic))
                     \o <<BoxTopRight>>
      middle == <<BoxVertical>> \o paddedTopic \o <<BoxVertical>>
      bottomBorder == <<BoxBottomLeft>> \o repeat(BoxHorizontal, Len(paddedTopic))
                        \o <<BoxBottomRight>>
  IN [t |-> "AsciiArtData",
      v |-> topBorder \o <<"\n">> \o middle \o <<"\n">> \o bottomBorder]

-----------------------------------------------------------------------------
(* The responses the service is let to give.                               *)

Meaning(title, description) == [title |-> title, description |-> description]

EmptyAmbiguity == [is_ambiguous |-> Undefined, meanings |-> Undefined]
StockMeanings ==
  JArr(<<Meaning(StockFinance, <<"f">>), Meaning(StockInventory, <<"i">>)>>)
AmbiguousStock == [is_ambiguous |-> JBool(TRUE), meanings |-> StockMeanings]
AmbiguousNoMeanings == [is_ambiguous |-> JBool(TRUE), meanings |-> JArr(<<>>)]

AmbiguityResponses ==
  { Rejection(EmptyAmbiguity),
    Text(FALSE, "prose", EmptyAmbiguity),
    Text(FALSE, "malformed", EmptyAmbiguity),
    Text(FALSE, "json", EmptyAmbiguity),
    Text(FALSE, "json", NotAmbiguous),
    Text(FALSE, "json", AmbiguousNoMeanings),
    Text(FALSE, "json", AmbiguousStock) }

EmptyDefinition == [summary |-> Undefined, key_concepts |-> Undefined]
Concepts == JArr(<<Meaning(<<"k">>, <<"x">>), Meaning(<<"m">>, <<"y">>)>>)
ValidDefinition == [summary |-> JStr(<<"s">>), key_concepts |-> Concepts]
NoSummaryDefinition == [summary |-> Undefined, key_concepts |-> Concepts]

DefinitionResponses ==
  { Rejection(EmptyDefinition),
    Text(FALSE, "prose", EmptyDefinition),
    Text(FALSE, "json", NoSummaryDefinition),
    Text(FALSE, "json", ValidDefinition) }

EmptyComparison ==
  [introduction |-> Undefined, similarities |-> Undefined,
   differences |-> Undefined, conclusion |-> Undefined]
ValidComparison ==
  [introduction |-> JStr(<<"i">>), similarities |-> Concepts,
   differences |-> JArr(<<>>), conclusion |-> JStr(<<"c">>)]
NoConclusionComparison == [ValidComparison EXCEPT !.conclusion = Undefined]

ComparisonResponses ==
  { Rejection(EmptyComparison),
    Text(FALSE, "json", NoConclusionComparison),
    Text(FALSE, "json", ValidComparison) }

EmptyArt == [art |-> Undefined, text |-> Undefined]
ValidArt == [art |-> JStr(<<"*", "\n", "*">>), text |-> Undefined]
BlankArt == [art |-> JStr(<<" ", " ">>), text |-> Undefined]

ArtResponses ==
  { Rejection(EmptyArt),
    Text(FALSE, "json", BlankArt),
    Text(FALSE, "json", ValidArt),
    Text(TRUE, "json", ValidArt) }

-----------------------------------------------------------------------------
(* The resolution cycle: one run of the effect of App and its fetchContent. *)

\* const currentTopic = history[history.length - 1]; defined when non-empty
hasCurrentTopic(h) == Len(h) > 0
currentTopicOf(h) == h[Len(h)]
currentTopic == currentTopicOf(history)

\* const isComparison = currentTopic.toLowerCase().includes(' vs. ')
isComparison(topic) == includes(toLowerCase(topic), Separator)

\* const [topicA, topicB] = currentTopic.split(/ vs. /i), each trimmed
comparisonArgs(topic) == <<trim(split(topic)[1]), trim(split(topic)[2])>>

CycleIds == DOMAIN cycles
\* The cycle of the latest run of the effect.
activeCycle == Len(cycles)

Call(c, op, args, temps) ==
  [cycle |-> c, op |-> op, args |-> args, temperature |-> temps]

\* Step 2 of fetchContent: the art call, then the content call.
fetchCalls(c, topic, temp) ==
  { Call(c, "generateAsciiArt", <<topic>>, <<>>),
    IF isComparison(topic)
      THEN Call(c, "generateComparison", comparisonArgs(topic), <<temp>>)
      ELSE Call(c, "generateDefinition", <<topic>>, <<temp>>) }

\* With no key both calls of step 2 reject at once: the await of the content
\* call resumes before the catch handler chained behind .then of the art call.
fetchRejections(c) == <<[cycle |-> c, job |-> "content"], [cycle |-> c, job |-> "art"]>>

\* Mutant: the fetches of step 2 are started without awaiting step 1.
newCycleFetchesAtOnce(topic, temp) ==
  [topic |-> topic, temperature |-> temp, isCancelled |-> FALSE,
   ambiguity |-> IF isComparison(topic) THEN "skipped" ELSE "pending",
   content |-> "pending", art |-> "pending", attempt |-> 1]

\* The closure of a run of the effect, at its first await.
newCycle(topic, temp) ==
  [topic |-> topic, temperature |-> temp, isCancelled |-> FALSE,
   ambiguity |-> IF isComparison(topic) THEN "skipped" ELSE "pending",
   content |-> IF isComparison(topic) THEN "pending" ELSE "none",
   art |-> IF isComparison(topic) THEN "pending" ELSE "none",
   attempt |-> IF isComparison(topic) THEN 1 ELSE 0]

Vis == [content |-> content, isLoading |-> isLoading, error |-> error,
        asciiArt |-> asciiArt, ambiguityOptions |-> ambiguityOptions]

SetVisible(vis) ==
  /\ content' = vis.content
  /\ isLoading' = vis.isLoading
  /\ error' = vis.error
  /\ asciiArt' = vis.asciiArt
  /\ ambiguityOptions' = vis.ambiguityOptions

\* Mutant: fetchContent forgets setError(null).
cleanPageKeepsError(vis) ==
  [content |-> Null, isLoading |-> TRUE, error |-> vis.error,
   asciiArt |-> Null, ambiguityOptions |-> Null]

\* fetchContent: "Set initial state for a clean page load"
cleanPage(vis) ==
  [content |-> Null, isLoading |-> TRUE, error |-> Null,
   asciiArt |-> Null, ambiguityOptions |-> Null]

\* return () => { isCancelled = true; } of the previous run of the effect
cleanup(cs) ==
  IF cs = <<>> THEN cs ELSE [cs EXCEPT ![Len(cs)].isCancelled = TRUE]

\* The dependencies [currentTopic, temperature] differ between two renders.
depsChanged(h1, t1, h2, t2) ==
  \/ t1 # t2
  \/ hasCurrentTopic(h1) # hasCurrentTopic(h2)
  \/ /\ hasCurrentTopic(h1) /\ hasCurrentTopic(h2)
     /\ currentTopicOf(h1) # currentTopicOf(h2)

\* The render after a handler left history h2, temperature t2 and visible
\* state vis, and the effect that follows it when its dependencies changed.
render(h2, t2, vis) ==
  /\ history' = h2
  /\ temperature' = t2
  /\ apiKey' = apiKey
  /\ IF ~depsChanged(history, temperature, h2, t2)
       THEN /\ SetVisible(vis)
            /\ UNCHANGED <<cycles, calls, microtasks>>
     ELSE IF ~hasCurrentTopic(h2) \/ currentTopicOf(h2) = <<>>
       THEN \* if (!currentTopic) return;
            /\ SetVisible(vis)
            /\ cycles' = cleanup(cycles)
            /\ UNCHANGED <<calls, microtasks>>
     ELSE LET topic == currentTopicOf(h2)
              c == Len(cycles) + 1
          IN /\ Len(cycles) < MaxCycles
             /\ SetVisible(cleanPage(vis))
             /\ cycles' = Append(cleanup(cycles), newCycle(topic, t2))
             /\ IF isComparison(topic)
                  THEN /\ calls' = calls \cup fetchCalls(c, topic, t2)
                       /\ microtasks' = IF apiKey THEN <<>> ELSE fetchRejections(c)
                  ELSE /\ calls' = calls \cup
                            {Call(c, "checkForAmbiguity", <<topic>>, <<t2>>)}
                       /\ microtasks' = IF apiKey THEN <<>>
                            ELSE <<[cycle |-> c, job |-> "ambiguity"]>>

-----------------------------------------------------------------------------
(* The handlers of App.                                                    *)

\* No function is being called in isolation.
NoProbe == [op |-> "", args |-> <<>>, result |-> <<>>]

\* No promise reaction is waiting: an event or a response can be handled.
idle == microtasks = <<>>

\* What ran last: a handler (cycle 0), or a continuation of cycle c with the
\* value of its isCancelled flag and the kind of result it was resumed with.
Event(kind, c, stale, result) ==
  [kind |-> kind, cycle |-> c, stale |-> stale, result |-> result]

\* if (newTopic && newTopic.toLowerCase() !== currentTopic.toLowerCase()).
\* With an empty history currentTopic is undefined and a non-blank topic makes
\* currentTopic.toLowerCase() throw before any state is set.
topicChanges(topic) ==
  /\ trim(topic) # <<>>
  /\ hasCurrentTopic(history)
  /\ toLowerCase(trim(topic)) # toLowerCase(currentTopic)

\* Mutant: the new topic is compared with the current one as written.
handleTopicChangeCaseSensitive(topic, kind) ==
  /\ idle
  /\ IF trim(topic) # <<>> /\ hasCurrentTopic(history) /\ trim(topic) # currentTopic
       THEN /\ render(Append(history, trim(topic)), temperature,
                      [Vis EXCEPT !.ambiguityOptions = Null])
            /\ lastEvent' = Event(kind, 0, FALSE, "")
       ELSE UNCHANGED appVars

\* Mutant: the topic is appended as typed, white space included.
handleTopicChangeKeepsPadding(topic, kind) ==
  /\ idle
  /\ IF topicChanges(topic)
       THEN /\ render(Append(history, topic), temperature,
                      [Vis EXCEPT !.ambiguityOptions = Null])
            /\ lastEvent' = Event(kind, 0, FALSE, "")
       ELSE UNCHANGED appVars

\* handleTopicChange, recorded as an event of the given kind
handleTopicChange(topic, kind) ==
  /\ idle
  /\ IF topicChanges(topic)
       THEN /\ render(Append(history, trim(topic)), temperature,
                      [Vis EXCEPT !.ambiguityOptions = Null])
            /\ lastEvent' = Event(kind, 0, FALSE, "")
       ELSE UNCHANGED appVars

\* The command navigateTo(topic): search box, clicked word
navigateTo(topic) ==
  /\ handleTopicChange(topic, "navigateTo")
  /\ UNCHANGED <<probe, pinVars>>

\* Array.prototype.slice(0, end)
slice0(h, end) ==
  LET e == IF end < 0 THEN (IF Len(h) + end < 0 THEN 0 ELSE Len(h) + end)
           ELSE (IF end > Len(h) THEN Len(h) ELSE end)
  IN SubSeq(h, 1, e)

\* Mutant: the entry behind the clicked one is kept too.
handleBreadcrumbClickKeepsNext(index) ==
  /\ idle
  /\ IF index < Len(history) - 1
       THEN /\ render(slice0(history, index + 2), temperature, Vis)
            /\ lastEvent' = Event("navigateToHistoryIndex", 0, FALSE, "")
       ELSE UNCHANGED appVars

\* handleBreadcrumbClick; index counts from 0
handleBreadcrumbClick(index) ==
  /\ idle
  /\ IF index < Len(history) - 1
       THEN /\ render(slice0(history, index + 1), temperature, Vis)
            /\ lastEvent' = Event("navigateToHistoryIndex", 0, FALSE, "")
       ELSE UNCHANGED appVars

\* The command navigateToHistoryIndex(index)
navigateToHistoryIndex(index) ==
  /\ handleBreadcrumbClick(index)
  /\ UNCHANGED <<probe, pinVars>>

\* Mutant: the drawn word is kept even when it is the current topic.
randomWordAsDrawn(topic, randomIndex) == UNIQUE_WORDS[randomIndex + 1]

\* The word handleRandom ends with, for the drawn index.
randomWordFor(topic, randomIndex) ==
  LET drawn == UNIQUE_WORDS[randomIndex + 1]
      nextIndex == (randomIndex + 1) % Len(UNIQUE_WORDS)
  IN IF toLowerCase(drawn) = toLowerCase(topic)
       THEN UNIQUE_WORDS[nextIndex + 1] ELSE drawn

\* handleRandom, with randomIndex = Math.floor(Math.random() * UNIQUE_WORDS.length).
\* With an empty history currentTopic.toLowerCase() throws after the five
\* setters of the reset have run and before setHistory.
handleRandom(randomIndex) ==
  /\ idle
  /\ IF hasCurrentTopic(history)
       THEN render(<<randomWordFor(currentTopic, randomIndex)>>, temperature,
                   cleanPage(Vis))
       ELSE render(history, temperature, cleanPage(Vis))
  /\ lastEvent' = Event("pickRandom", 0, FALSE, "")

\* The command pickRandom()
pickRandom(randomIndex) ==
  /\ handleRandom(randomIndex)
  /\ UNCHANGED <<probe, pinVars>>

\* Mutant: the effect does not depend on the temperature.
setTemperatureWithoutEffect(v) ==
  /\ idle
  /\ IF v # temperature
       THEN /\ temperature' = v
            /\ lastEvent' = Event("setTemperature", 0, FALSE, "")
            /\ UNCHANGED <<history, visible, apiKey, cycles, calls, microtasks>>
       ELSE UNCHANGED appVars
  /\ UNCHANGED <<probe, pinVars>>

\* TemperatureSlider onChange={setTemperature}
setTemperature(v) ==
  /\ idle
  /\ IF v # temperature
       THEN /\ render(history, v, Vis)
            /\ lastEvent' = Event("setTemperature", 0, FALSE, "")
       ELSE UNCHANGED appVars
  /\ UNCHANGED <<probe, pinVars>>

-----------------------------------------------------------------------------
(* The continuations of fetchContent.                                      *)

\* The reaction queue once the running reaction, if any, has left it.
dequeued == IF microtasks = <<>> THEN <<>> ELSE Tail(microtasks)

\* Mutant: the finally block is missing.
catchWithoutFinally(c, message) ==
  IF cycles[c].isCancelled THEN SetVisible(Vis)
  ELSE SetVisible([Vis EXCEPT !.error = [t |-> "message", v |-> <<message>>],
                              !.content = Null])

\* catch (e) { if (!isCancelled) { setError(message); setContent(null) } }
\* finally { if (!isCancelled) setIsLoading(false) }
catchAndFinally(c, message) ==
  IF cycles[c].isCancelled THEN SetVisible(Vis)
  ELSE SetVisible([Vis EXCEPT !.error = [t |-> "message", v |-> <<message>>],
                              !.content = Null,
                              !.isLoading = FALSE])

\* The code after `await checkForAmbiguity(currentTopic, temperature)`.
ambiguitySettled(c, outcome) ==
  LET cy == cycles[c]
      data == outcome.value[1]
  IN IF ~outcome.ok
       THEN /\ catchAndFinally(c, outcome.message[1])
            /\ cycles' = [cycles EXCEPT ![c].ambiguity = "settled"]
            /\ microtasks' = dequeued
            /\ UNCHANGED calls
     ELSE IF /\ ~cy.isCancelled
             /\ truthy(data.is_ambiguous)
             /\ truthy(optionalLength(data.meanings))
       THEN \* publish the choice, return, and the finally block
            /\ SetVisible([Vis EXCEPT !.ambiguityOptions = data.meanings,
                                      !.isLoading = FALSE])
            /\ cycles' = [cycles EXCEPT ![c].ambiguity = "settled"]
            /\ microtasks' = dequeued
            /\ UNCHANGED calls
     ELSE \* step 2: start the art call, then await the content call
            /\ SetVisible(Vis)
            /\ cycles' = [cycles EXCEPT ![c].ambiguity = "settled",
                                        ![c].content = "pending",
                                        ![c].art = "pending",
                                        ![c].attempt = 1]
            /\ calls' = calls \cup fetchCalls(c, cy.topic, cy.temperature)
            /\ microtasks' = IF apiKey THEN dequeued
                             ELSE dequeued \o fetchRejections(c)

\* Mutant: the content result is applied without looking at isCancelled.
contentSettledUnchecked(c, outcome) ==
  /\ IF outcome.ok
       THEN SetVisible([Vis EXCEPT !.content = outcome.value[1],
                                   !.isLoading = FALSE])
       ELSE SetVisible([Vis EXCEPT
                          !.error = [t |-> "message", v |-> <<outcome.message[1]>>],
                          !.content = Null, !.isLoading = FALSE])
  /\ cycles' = [cycles EXCEPT ![c].content = "settled"]
  /\ microtasks' = dequeued
  /\ UNCHANGED calls

\* Mutant: the catch block forgets setContent(null) and the finally block.
contentSettledErrorOnly(c, outcome) ==
  /\ IF cycles[c].isCancelled THEN SetVisible(Vis)
     ELSE IF outcome.ok
       THEN SetVisible([Vis EXCEPT !.content = outcome.value[1],
                                   !.isLoading = FALSE])
       ELSE SetVisible([Vis EXCEPT
                          !.error = [t |-> "message", v |-> <<outcome.message[1]>>]])
  /\ cycles' = [cycles EXCEPT ![c].content = "settled"]
  /\ microtasks' = dequeued
  /\ UNCHANGED calls

\* Mutant: the art call is awaited together with the content call, so the
\* finally block is only reached once the art call has settled.
contentSettledAwaitsArt(c, outcome) ==
  /\ IF cycles[c].isCancelled THEN SetVisible(Vis)
     ELSE IF outcome.ok
       THEN SetVisible([Vis EXCEPT !.content = outcome.value[1],
                                   !.isLoading = cycles[c].art = "pending"])
       ELSE SetVisible([Vis EXCEPT
                          !.error = [t |-> "message", v |-> <<outcome.message[1]>>],
                          !.content = Null,
                          !.isLoading = cycles[c].art = "pending"])
  /\ cycles' = [cycles EXCEPT ![c].content = "settled"]
  /\ microtasks' = dequeued
  /\ UNCHANGED calls

\* The code after `await generateComparison(...)` / `await generateDefinition(...)`.
contentSettled(c, outcome) ==
  /\ IF outcome.ok
       THEN IF cycles[c].isCancelled THEN SetVisible(Vis)
            ELSE SetVisible([Vis EXCEPT !.content = outcome.value[1],
                                        !.isLoading = FALSE])
       ELSE catchAndFinally(c, outcome.message[1])
  /\ cycles' = [cycles EXCEPT ![c].content = "settled"]
  /\ microtasks' = dequeued
  /\ UNCHANGED calls

\* Mutant: the art result is applied without looking at isCancelled.
artSettledUnchecked(c, outcome) ==
  /\ SetVisible([Vis EXCEPT !.asciiArt =
                   IF outcome.ok THEN outcome.value[1]
                   ELSE createFallbackArt(cycles[c].topic)])
  /\ cycles' = [cycles EXCEPT ![c].art = "settled"]
  /\ microtasks' = dequeued
  /\ UNCHANGED calls

\* Mutant: a failed art call is reported like a failed content call.
artSettledSurfacesError(c, outcome) ==
  /\ IF cycles[c].isCancelled THEN SetVisible(Vis)
     ELSE IF outcome.ok THEN SetVisible([Vis EXCEPT !.asciiArt = outcome.value[1]])
     ELSE SetVisible([Vis EXCEPT
                        !.error = [t |-> "message", v |-> <<outcome.message[1]>>],
                        !.asciiArt = createFallbackArt(cycles[c].topic)])
  /\ cycles' = [cycles EXCEPT ![c].art = "settled"]
  /\ microtasks' = dequeued
  /\ UNCHANGED calls

\* Mutant: the art is applied only while the content call is outstanding.
artSettledBeforeContentOnly(c, outcome) ==
  /\ IF cycles[c].isCancelled \/ cycles[c].content = "settled"
       THEN SetVisible(Vis)
       ELSE SetVisible([Vis EXCEPT !.asciiArt =
                          IF outcome.ok THEN outcome.value[1]
                          ELSE createFallbackArt(cycles[c].topic)])
  /\ cycles' = [cycles EXCEPT ![c].art = "settled"]
  /\ microtasks' = dequeued
  /\ UNCHANGED calls

\* The .then and .catch handlers chained on generateAsciiArt(currentTopic).
artSettled(c, outcome) ==
  /\ IF cycles[c].isCancelled THEN SetVisible(Vis)
     ELSE SetVisible([Vis EXCEPT !.asciiArt =
                        IF outcome.ok THEN outcome.value[1]
                        ELSE createFallbackArt(cycles[c].topic)])
  /\ cycles' = [cycles EXCEPT ![c].art = "settled"]
  /\ microtasks' = dequeued
  /\ UNCHANGED calls

\* What the content call of cycle c returns on response r.
contentOutcome(c, r) ==
  IF isComparison(cycles[c].topic)
    THEN generateComparison(comparisonArgs(cycles[c].topic)[1],
                            comparisonArgs(cycles[c].topic)[2], r)
    ELSE generateDefinition(cycles[c].topic, r)

ContentResponsesOf(c) ==
  IF isComparison(cycles[c].topic) THEN ComparisonResponses
  ELSE DefinitionResponses

-----------------------------------------------------------------------------
(* Responses of the service, and the rejections of a client without key.   *)

\* The kinds of response to an ambiguity check: one that makes the try block
\* throw, one that reports at least one meaning, and the rest.
ambiguityKind(r) ==
  IF ambiguityFailure(r) # "" THEN "failed"
  ELSE IF truthy(r.value.is_ambiguous) /\ truthy(optionalLength(r.value.meanings))
    THEN "ambiguous"
  ELSE "notAmbiguous"

settledKind(outcome) == IF outcome.ok THEN "fulfilled" ELSE "rejected"

AmbiguityResponse(c, r) ==
  /\ idle /\ apiKey
  /\ cycles[c].ambiguity = "pending"
  /\ ambiguitySettled(c, checkForAmbiguity(cycles[c].topic, r))
  /\ lastEvent' = Event("ambiguity", c, cycles[c].isCancelled, ambiguityKind(r))
  /\ UNCHANGED <<history, temperature, apiKey, probe, pinVars>>

\* Mutant: the completion of the content call empties the pinboard.
ContentResponseUnpins(c, r) ==
  /\ idle /\ apiKey
  /\ cycles[c].content = "pending"
  /\ contentSettled(c, contentOutcome(c, r))
  /\ lastEvent' = Event("content", c, cycles[c].isCancelled,
                        settledKind(contentOutcome(c, r)))
  /\ pinnedItems' = <<>>
  /\ UNCHANGED <<history, temperature, apiKey, probe, isPinboardVisible>>

ContentResponse(c, r) ==
  /\ idle /\ apiKey
  /\ cycles[c].content = "pending"
  /\ contentSettled(c, contentOutcome(c, r))
  /\ lastEvent' = Event("content", c, cycles[c].isCancelled,
                        settledKind(contentOutcome(c, r)))
  /\ UNCHANGED <<history, temperature, apiKey, probe, pinVars>>

\* One response of the retry loop of generateAsciiArt.
ArtResponse(c, r) ==
  /\ idle /\ apiKey
  /\ cycles[c].art = "pending"
  /\ IF ~asciiArtAttempt(r).ok /\ cycles[c].attempt < maxRetries
       THEN /\ cycles' = [cycles EXCEPT ![c].attempt = @ + 1]
            /\ lastEvent' = Event("artRetry", c, cycles[c].isCancelled, "rejected")
            /\ UNCHANGED <<visible, calls, microtasks>>
       ELSE /\ artSettled(c, asciiArtAttempt(r))
            /\ lastEvent' = Event("art", c, cycles[c].isCancelled,
                                  settledKind(asciiArtAttempt(r)))
  /\ UNCHANGED <<history, temperature, apiKey, probe, pinVars>>

\* if (!process.env.API_KEY) throw ... in checkForAmbiguity
AmbiguityConfigRejection ==
  /\ microtasks # <<>> /\ Head(microtasks).job = "ambiguity"
  /\ ambiguitySettled(Head(microtasks).cycle, Rejected(AmbiguityConfigError))
  /\ lastEvent' = Event("ambiguity", Head(microtasks).cycle,
                        cycles[Head(microtasks).cycle].isCancelled, "threw")
  /\ UNCHANGED <<history, temperature, apiKey, probe, pinVars>>

\* if (!process.env.API_KEY) throw ... in generateDefinition / generateComparison
ContentConfigRejection ==
  /\ microtasks # <<>> /\ Head(microtasks).job = "content"
  /\ contentSettled(Head(microtasks).cycle, Rejected(ContentConfigError))
  /\ lastEvent' = Event("content", Head(microtasks).cycle,
                        cycles[Head(microtasks).cycle].isCancelled, "rejected")
  /\ UNCHANGED <<history, temperature, apiKey, probe, pinVars>>

\* if (!process.env.API_KEY) throw ... in generateAsciiArt
ArtConfigRejection ==
  /\ microtasks # <<>> /\ Head(microtasks).job = "art"
  /\ artSettled(Head(microtasks).cycle, Rejected(ArtConfigError))
  /\ lastEvent' = Event("art", Head(microtasks).cycle,
                        cycles[Head(microtasks).cycle].isCancelled, "rejected")
  /\ UNCHANGED <<history, temperature, apiKey, probe, pinVars>>

-----------------------------------------------------------------------------
(* The specification.                                                      *)

\* The state after mount: the first run of the effect, for 'Hypertext'.
InitApp ==
  /\ history = <<Hypertext>>
  /\ temperature = 4
  /\ apiKey \in BOOLEAN
  /\ content = Null
  /\ isLoading = TRUE
  /\ error = Null
  /\ asciiArt = Null
  /\ ambiguityOptions = Null
  /\ cycles = <<newCycle(Hypertext, 4)>>
  /\ calls = {Call(1, "checkForAmbiguity", <<Hypertext>>, <<4>>)}
  /\ microtasks = IF apiKey THEN <<>> ELSE <<[cycle |-> 1, job |-> "ambiguity"]>>
  /\ lastEvent = Event("mount", 0, FALSE, "")
  /\ pinnedItems = <<>>
  /\ isPinboardVisible = FALSE

Init == InitApp /\ probe = NoProbe

Next ==
  \/ \E topic \in NavTopics : navigateTo(topic)
  \/ \E index \in 0..(Len(history) - 1) : navigateToHistoryIndex(index)
  \/ \E randomIndex \in 0..(Len(UNIQUE_WORDS) - 1) : pickRandom(randomIndex)
  \/ \E v \in Temperatures : setTemperature(v)
  \/ \E c \in CycleIds : \E r \in AmbiguityResponses : AmbiguityResponse(c, r)
  \/ \E c \in CycleIds : \E r \in ContentResponsesOf(c) : ContentResponse(c, r)
  \/ \E c \in CycleIds : \E r \in ArtResponses : ArtResponse(c, r)
  \/ AmbiguityConfigRejection
  \/ ContentConfigRejection
  \/ ArtConfigRejection

Spec == Init /\ [][Next]_vars

-----------------------------------------------------------------------------
(* Vocabulary of the properties.                                           *)

\* In this step the continuation of cycle c after its ambiguity check, its
\* content call or its art call runs.
AmbiguityCompletes(c) ==
  cycles[c].ambiguity = "pending" /\ cycles'[c].ambiguity = "settled"
ContentCompletes(c) ==
  cycles[c].content = "pending" /\ cycles'[c].content = "settled"
ArtCompletes(c) ==
  cycles[c].art = "pending" /\ cycles'[c].art = "settled"

CallsOf(c, op) == {k \in calls : k.cycle = c /\ k.op = op}

\* The two sides of a composite "A vs. B", read off the literal separator.
RECURSIVE separatorAt(_, _)
separatorAt(s, i) ==
  IF SubSeq(s, i, i + Len(Separator) - 1) = Separator THEN i
  ELSE separatorAt(s, i + 1)
leftSide(s) == trim(SubSeq(s, 1, separatorAt(s, 1) - 1))
rightSide(s) == trim(SubSeq(s, separatorAt(s, 1) + Len(Separator), Len(s)))

ErrorOf(message) == [t |-> "message", v |-> <<message>>]

-----------------------------------------------------------------------------
(* C1: the completion of the content fetch of a superseded cycle changes    *)
(* neither the visible content nor the visible error nor the loading flag,  *)
(* and content becomes visible only in the step in which the content fetch  *)
(* of the most recently started cycle completes.                            *)
C1_StaleContentNeverVisible ==
  [][ /\ \A c \in CycleIds :
           (cycles[c].isCancelled /\ ContentCompletes(c))
             => (content' = content /\ error' = error /\ isLoading' = isLoading)
      /\ (content' # content /\ content' # Null)
           => /\ Len(cycles') = Len(cycles)
              /\ ~cycles[activeCycle].isCancelled
              /\ ContentCompletes(activeCycle)
    ]_vars

\* A content fetch of a superseded cycle has just completed successfully
\* while the content of the active cycle is on display.
C1_Witness ==
  /\ lastEvent.kind = "content" /\ lastEvent.stale
  /\ lastEvent.result = "fulfilled"
  /\ lastEvent.cycle < activeCycle
  /\ content # Null

(* C2: the completion of the ambiguity check or of the art fetch of a       *)
(* superseded cycle publishes no ambiguity options and sets no art (fetched *)
(* or fallback); whatever art or options are displayed come from the cycle  *)
(* of the current topic.                                                    *)
C2_StaleChoiceAndArtDropped ==
  [][ /\ \A c \in CycleIds :
           (cycles[c].isCancelled /\ (AmbiguityCompletes(c) \/ ArtCompletes(c)))
             => (ambiguityOptions' = ambiguityOptions /\ asciiArt' = asciiArt)
      /\ ambiguityOptions' # Null
           => /\ cycles'[Len(cycles')].topic = currentTopicOf(history')
              /\ cycles'[Len(cycles')].ambiguity = "settled"
              /\ cycles'[Len(cycles')].content = "none"
      /\ asciiArt' # Null
           => /\ cycles'[Len(cycles')].topic = currentTopicOf(history')
              /\ cycles'[Len(cycles')].art = "settled"
              /\ \/ asciiArt' = createFallbackArt(currentTopicOf(history'))
                 \/ \E r \in ArtResponses :
                      /\ asciiArtAttempt(r).ok
                      /\ asciiArt' = asciiArtAttempt(r).value[1]
    ]_vars

\* An ambiguity check that reports meanings has just completed in a
\* superseded cycle, and no options are on display.
C2_Witness ==
  /\ lastEvent.kind = "ambiguity" /\ lastEvent.stale
  /\ lastEvent.result = "ambiguous"
  /\ ambiguityOptions = Null

(* C3, as stated: whenever the ambiguity check of a cycle fails, whatever   *)
(* the cause (missing key, transport, parse, validation), the cycle starts  *)
(* the art fetch and the definition fetch and the visible error is left as  *)
(* it was.                                                                  *)
C3_AnyFailureFailsOpen ==
  [][ \A c \in CycleIds :
        (AmbiguityCompletes(c) /\ lastEvent'.result \in {"failed", "threw"})
          => /\ cycles'[c].content = "pending" /\ cycles'[c].art = "pending"
             /\ error' = error
    ]_vars

(* C3, amended: when the service call of the ambiguity check fails or its   *)
(* payload is rejected (transport, parse, validation), the cycle takes the  *)
(* very step it takes on the answer is_ambiguous: false: it calls           *)
(* generateAsciiArt and generateDefinition and no error becomes visible.    *)
(* With no key configured checkForAmbiguity throws instead: the cycle       *)
(* starts no fetch and, when still active, shows the configuration error.   *)
C3_ServiceFailureFailsOpen ==
  [][ \A c \in CycleIds :
        /\ (AmbiguityCompletes(c) /\ lastEvent'.result = "failed")
             => /\ ambiguitySettled(c, Fulfilled(NotAmbiguous))
                /\ cycles'[c].content = "pending" /\ cycles'[c].art = "pending"
                /\ fetchCalls(c, cycles[c].topic, cycles[c].temperature)
                     \subseteq calls'
                /\ visible' = visible
        /\ (AmbiguityCompletes(c) /\ lastEvent'.result = "threw")
             => /\ ~apiKey
                /\ cycles'[c].content = "none" /\ cycles'[c].art = "none"
                /\ calls' = calls
                /\ ~cycles[c].isCancelled
                     => (error' = ErrorOf(AmbiguityConfigError) /\ ~isLoading')
    ]_vars

\* The ambiguity check of the active cycle has just failed in the service
\* call or in validation, and the cycle is fetching content and art.
C3_Witness ==
  /\ lastEvent.kind = "ambiguity" /\ ~lastEvent.stale
  /\ lastEvent.result = "failed"
  /\ cycles[lastEvent.cycle].content = "pending"
  /\ cycles[lastEvent.cycle].art = "pending"
  /\ error = Null /\ isLoading

(* C4: a cycle whose ambiguity check reports is_ambiguous with at least one *)
(* meaning calls neither generateDefinition nor generateAsciiArt; when      *)
(* still active it publishes exactly the returned meanings, clears the      *)
(* loading flag and leaves content and art absent.                          *)
C4_AmbiguousCycleStops ==
  [][ \A c \in CycleIds :
        (AmbiguityCompletes(c) /\ lastEvent'.result = "ambiguous")
          => /\ calls' = calls
             /\ cycles'[c].content = "none" /\ cycles'[c].art = "none"
             /\ ~cycles[c].isCancelled
                  => /\ \E r \in AmbiguityResponses :
                          /\ ambiguityKind(r) = "ambiguous"
                          /\ ambiguityOptions' = r.value.meanings
                     /\ ~isLoading'
                     /\ content' = Null /\ asciiArt' = Null
    ]_vars

(* C5: a cycle whose topic contains the separator " vs. " calls neither     *)
(* checkForAmbiguity nor generateDefinition, and calls generateComparison   *)
(* with the trimmed left and right side of the composite.                   *)
C5_ComparisonSkipsDisambiguation ==
  \A c \in CycleIds :
    includes(cycles[c].topic, Separator)
      => /\ CallsOf(c, "checkForAmbiguity") = {}
         /\ CallsOf(c, "generateDefinition") = {}
         /\ CallsOf(c, "generateComparison") =
              {Call(c, "generateComparison",
                    <<leftSide(cycles[c].topic), rightSide(cycles[c].topic)>>,
                    <<cycles[c].temperature>>)}

(* C6: when the art fetch of the active cycle fails, the art becomes the    *)
(* fallback box of that cycle's topic; the visible error, the content and   *)
(* the loading flag are left as they were.                                  *)
C6_ArtFailureFallsBack ==
  [][ \A c \in CycleIds :
        (~cycles[c].isCancelled /\ ArtCompletes(c) /\ lastEvent'.result = "rejected")
          => /\ asciiArt' = createFallbackArt(cycles[c].topic)
             /\ error' = error
             /\ content' = content
             /\ isLoading' = isLoading
             /\ ambiguityOptions' = ambiguityOptions
    ]_vars

\* The art fetch of the active cycle has just failed after its content was
\* displayed: the fallback box of the current topic is shown beside it.
C6_Witness ==
  /\ lastEvent.kind = "art" /\ ~lastEvent.stale
  /\ lastEvent.result = "rejected"
  /\ asciiArt = createFallbackArt(currentTopic)
  /\ content # Null /\ error = Null /\ ~isLoading

\* The messages the content call of cycle c can fail with.
contentFailureMessages(c) ==
  IF apiKey
    THEN {contentOutcome(c, r).message[1] :
            r \in {q \in ContentResponsesOf(c) : ~contentOutcome(c, q).ok}}
    ELSE {ContentConfigError}

(* C7: when the content fetch of the active cycle fails, the visible error  *)
(* is the message of that failure, the content is absent and the loading    *)
(* flag is cleared; the art is left as it was.                              *)
C7_ContentFailureShowsError ==
  [][ \A c \in CycleIds :
        (~cycles[c].isCancelled /\ ContentCompletes(c)
           /\ lastEvent'.result = "rejected")
          => /\ error'.t = "message"
             /\ error'.v[1] \in contentFailureMessages(c)
             /\ content' = Null
             /\ ~isLoading'
             /\ asciiArt' = asciiArt
             /\ ambiguityOptions' = ambiguityOptions
    ]_vars

\* The content fetch of the active cycle has just failed while the art of
\* that cycle was already on display.
C7_Witness ==
  /\ lastEvent.kind = "content" /\ ~lastEvent.stale
  /\ lastEvent.result = "rejected"
  /\ error # Null /\ content = Null /\ ~isLoading
  /\ asciiArt # Null

\* The message quotes the topic, or both sides of a composite topic.
namesTopic(message, topic) ==
  LET quoted == {message.topics[i] : i \in 1..Len(message.topics)}
  IN IF includes(topic, Separator)
       THEN {leftSide(topic), rightSide(topic)} \subseteq quoted
       ELSE topic \in quoted

(* C8: whatever error is visible, its message names the current topic (for  *)
(* a comparison, both of its topics).                                       *)
C8_ErrorNamesTopic ==
  error # Null => namesTopic(error.v[1], currentTopic)

(* C9: when the content fetch of the active cycle succeeds, the visible     *)
(* content is exactly the Definition or Comparison the call returned, the   *)
(* loading flag is cleared and no error is visible.                         *)
C9_ContentSuccessShowsContent ==
  [][ \A c \in CycleIds : \A r \in ContentResponsesOf(c) :
        (~cycles[c].isCancelled /\ ContentCompletes(c)
           /\ r.status = "fulfilled" /\ r.body = "json" /\ ~r.fenced
           /\ (\A f \in DOMAIN r.value : truthy(r.value[f]))
           /\ ContentResponse(c, r))
          => /\ IF isComparison(cycles[c].topic)
                  THEN /\ content'.t = "comparison"
                       /\ content'.v[1].data = r.value
                  ELSE /\ content'.t = "definition"
                       /\ content'.v[1] = r.value
             /\ ~isLoading'
             /\ error' = Null
             /\ ambiguityOptions' = Null
    ]_vars

\* The content fetch of the active cycle has just returned a definition,
\* which is on display.
C9_Witness ==
  /\ lastEvent.kind = "content" /\ ~lastEvent.stale
  /\ lastEvent.result = "fulfilled"
  /\ content.t = "definition"
  /\ content.v[1] = ValidDefinition
  /\ ~isLoading /\ error = Null

(* C10: at most one of content, ambiguity options and error is present.     *)
C10_OneOutcomeVisible ==
  Cardinality({x \in {"content", "ambiguityOptions", "error"} :
                 Vis[x] # Null}) <= 1

\* A later cycle has ended in an error, and neither content nor options of
\* an earlier cycle remain.
C10_Witness ==
  /\ activeCycle > 1
  /\ cycles[activeCycle].content = "settled"
  /\ error # Null /\ content = Null /\ ambiguityOptions = Null

-----------------------------------------------------------------------------
(* Navigation: the commands of the UI layer with arbitrary arguments, the   *)
(* last one recorded in probe, so that a command that changes nothing is a  *)
(* step too. The service answers only the ambiguity check of the latest     *)
(* run of the effect, and always with meanings.                             *)

\* " STOCK "
PaddedStock == <<" ", "S", "T", "O", "C", "K", " ">>
Blank == <<" ", " ">>
LowerHypertext == toLowerCase(Hypertext)
LowerBalance == toLowerCase(Balance)
\* "Gravity vs.  vs. Entropy": nothing between two separators
OneSided == Gravity \o Separator \o Separator \o Entropy

\* 'ETE' with acute accents on both E (U+00C9), in capitals and in small
\* letters (U+00E9): equal under toLowerCase only where it knows letters
\* beyond ASCII.
UpperEte == <<"U+00C9", "T", "U+00C9">>
LowerEte == <<"U+00E9", "t", "U+00E9">>

SearchTopics ==
  {Stock, PaddedStock, Blank, LowerHypertext, LowerBalance,
   GravityVsEntropy, OneSided, UpperEte, LowerEte}

\* Meanings of which one bears the title of the topic asked about.
SelfMeanings ==
  JArr(<<Meaning(LowerHypertext, <<"h">>), Meaning(StockFinance, <<"f">>)>>)
AmbiguousSelf == [is_ambiguous |-> JBool(TRUE), meanings |-> SelfMeanings]

ChoiceResponses ==
  { Text(FALSE, "json", AmbiguousStock),
    Text(FALSE, "json", AmbiguousSelf) }

\* The record of the command issued last.
Command(op) == [op |-> op, args |-> <<>>, result |-> <<>>]

issueNavigateTo(topic) ==
  /\ handleTopicChange(topic, "navigateTo")
  /\ probe' = Command("navigateTo")
  /\ UNCHANGED pinVars

issueNavigateToHistoryIndex(index) ==
  /\ handleBreadcrumbClick(index)
  /\ probe' = [Command("navigateToHistoryIndex") EXCEPT !.args = <<index>>]
  /\ UNCHANGED pinVars

issuePickRandom(randomIndex) ==
  /\ handleRandom(randomIndex)
  /\ probe' = Command("pickRandom")
  /\ UNCHANGED pinVars

\* Disambiguation: onClick={() => onSelect(option.title)}
selectMeaning(i) ==
  /\ ambiguityOptions # Null
  /\ i \in 1..Len(ambiguityOptions.v)
  /\ handleTopicChange(ambiguityOptions.v[i].title, "selectMeaning")
  /\ probe' = Command("selectMeaning")
  /\ UNCHANGED pinVars

NavInit == Init /\ apiKey

NavNext ==
  \/ \E topic \in SearchTopics : issueNavigateTo(topic)
  \/ \E index \in (0 - 2)..Len(history) : issueNavigateToHistoryIndex(index)
  \/ \E randomIndex \in 0..(Len(UNIQUE_WORDS) - 1) : issuePickRandom(randomIndex)
  \/ \E i \in 1..2 : selectMeaning(i)
  \/ \E r \in ChoiceResponses : AmbiguityResponse(activeCycle, r)

NavSpec == NavInit /\ [][NavNext]_vars

-----------------------------------------------------------------------------
\* Equal under case-insensitive comparison.
sameTopic(a, b) == toLowerCase(a) = toLowerCase(b)

(* C11, as stated: navigateTo(topic) appends the trimmed topic to history   *)
(* exactly when it differs case-insensitively from the current topic, and   *)
(* otherwise leaves history unchanged.                                      *)
C11_AppendsWhenDifferent ==
  [][ \A topic \in SearchTopics :
        (issueNavigateTo(topic) /\ hasCurrentTopic(history))
          => history' = IF sameTopic(trim(topic), currentTopic) THEN history
                        ELSE Append(history, trim(topic))
    ]_vars

(* C11, amended: navigateTo(topic) appends the trimmed topic to history     *)
(* exactly when the trimmed topic is not empty and differs                  *)
(* case-insensitively from the current topic; for a blank topic or a topic  *)
(* equal to the current one history is unchanged.                           *)
C11_AppendsNonBlankDifferent ==
  [][ \A topic \in SearchTopics :
        (issueNavigateTo(topic) /\ hasCurrentTopic(history))
          => history' = IF /\ trim(topic) # <<>>
                           /\ ~sameTopic(trim(topic), currentTopic)
                          THEN Append(history, trim(topic))
                          ELSE history
    ]_vars

\* navigateTo(" STOCK ") has appended "STOCK" behind 'Hypertext', and a topic
\* in capitals with accents behind that; the same topic in small letters
\* would now be refused.
C11_Witness ==
  /\ probe.op = "navigateTo"
  /\ lastEvent.kind = "navigateTo"
  /\ history = <<Hypertext, trim(PaddedStock), UpperEte>>
  /\ sameTopic(LowerEte, currentTopic)

(* C12: after any sequence of navigateTo, navigateToHistoryIndex and        *)
(* pickRandom with any arguments, history is not empty, and so has a last   *)
(* element, the current topic.                                              *)
C12_HistoryNeverEmpty ==
  history # <<>>

(* C13: navigateToHistoryIndex(index), index being a position in history    *)
(* or the one behind the last: with index before the last element history   *)
(* is replaced by its prefix of length index + 1, whose last entry, the one *)
(* at index, becomes the current topic; with any other index history is     *)
(* unchanged.                                                               *)
C13_TruncatesToIndex ==
  [][ \A index \in 0..Len(history) :
        issueNavigateToHistoryIndex(index)
          => IF index < Len(history) - 1
               THEN /\ Len(history') = index + 1
                    /\ \A i \in 1..Len(history') : history'[i] = history[i]
                    /\ hasCurrentTopic(history')
                    /\ currentTopicOf(history') = history[index + 1]
               ELSE history' = history
    ]_vars

\* The first breadcrumb has been clicked while 'Stock' was the current topic
\* behind 'Hypertext': 'Hypertext' alone is left.
C13_Witness ==
  /\ probe.op = "navigateToHistoryIndex"
  /\ probe.args = <<0>>
  /\ lastEvent.kind = "navigateToHistoryIndex"
  /\ activeCycle = 3
  /\ cycles[2].topic = Stock
  /\ history = <<Hypertext>>

(* C14: whatever the current topic and whatever word is drawn, pickRandom   *)
(* leaves a history of exactly one entry, a word of the vocabulary that is  *)
(* not case-insensitively equal to the topic that was current.              *)
C14_RandomReplacesWithOtherTopic ==
  [][ \A randomIndex \in 0..(Len(UNIQUE_WORDS) - 1) :
        (issuePickRandom(randomIndex) /\ hasCurrentTopic(history))
          => /\ Len(history') = 1
             /\ \E i \in 1..Len(UNIQUE_WORDS) : history'[1] = UNIQUE_WORDS[i]
             /\ ~sameTopic(history'[1], currentTopic)
    ]_vars

\* pickRandom has run while "balance" was the current topic of a history of
\* two entries: the history is the single word 'Harmony'.
C14_Witness ==
  /\ probe.op = "pickRandom"
  /\ lastEvent.kind = "pickRandom"
  /\ activeCycle = 3
  /\ cycles[2].topic = LowerBalance
  /\ history = <<Harmony>>

(* C15: whenever ambiguity options are displayed, choosing any of the       *)
(* meanings appends its title to history and starts a new run of the        *)
(* resolution cycle for that title, which begins with the ambiguity check.  *)
C15_ChoiceStartsNewCycle ==
  [][ \A i \in 1..2 :
        selectMeaning(i)
          => LET title == ambiguityOptions.v[i].title
             IN /\ history' = Append(history, title)
                /\ Len(cycles') = Len(cycles) + 1
                /\ cycles'[Len(cycles')].topic = title
                /\ ~cycles'[Len(cycles')].isCancelled
                /\ cycles'[Len(cycles')].ambiguity = "pending"
                /\ isLoading' /\ ambiguityOptions' = Null
    ]_vars

-----------------------------------------------------------------------------
(* Functions in isolation: probe holds one call, first with its arguments   *)
(* only, then with its result; the application does not move.               *)

Probe(op, args) == [op |-> op, args |-> args, result |-> <<>>]

\* The call in probe returns.
Returns(op, result) ==
  /\ probe.op = op
  /\ probe.result = <<>>
  /\ probe' = [probe EXCEPT !.result = <<result>>]
  /\ UNCHANGED <<appVars, pinVars>>

\* SearchBar.handleSubmit with the isLoading prop and the state of the form:
\* the arguments of onSearch, if it is called.
handleSubmit(loading, isCompareMode, query, query2) ==
  IF loading THEN <<>>
  ELSE IF isCompareMode
    THEN IF trim(query) # <<>> /\ trim(query2) # <<>>
           THEN <<trim(query) \o Separator \o trim(query2)>>
           ELSE <<>>
  ELSE IF trim(query) # <<>> THEN <<trim(query)>>
  ELSE <<>>

\* What the resolution cycle makes of the two inputs of a comparison search:
\* handleSubmit, handleTopicChange, then isComparison and the split.
submittedComparison(loading, query, query2) ==
  LET sent == handleSubmit(loading, TRUE, query, query2)
  IN IF sent = <<>>
       THEN [submitted |-> FALSE, isComparison |-> FALSE, sides |-> <<>>]
       ELSE [submitted |-> TRUE,
             isComparison |-> isComparison(trim(sent[1])),
             sides |-> IF isComparison(trim(sent[1]))
                         THEN comparisonArgs(trim(sent[1])) ELSE <<>>]

PaddedEntropy == <<" ">> \o Entropy \o <<" ", " ">>
Sides == {Gravity, PaddedEntropy, IceTea, Fog, Blank}

ComparisonProbes == {Probe("compare", <<a, b>>) : a \in Sides, b \in Sides}

\* onSearch={handleTopicChange}: what a submit that passed the guards of
\* handleSubmit does to the application.
onSearch(sent) ==
  IF sent # <<>> THEN handleTopicChange(sent[1], "navigateTo")
  ELSE UNCHANGED appVars

\* The form is submitted in compare mode.
compareReturns ==
  /\ probe.op = "compare"
  /\ probe.result = <<>>
  /\ probe' = [probe EXCEPT !.result =
                 <<submittedComparison(isLoading, probe.args[1], probe.args[2])>>]
  /\ onSearch(handleSubmit(isLoading, TRUE, probe.args[1], probe.args[2]))
  /\ UNCHANGED pinVars

\* A search in single-topic mode.
SearchProbes == {Probe("search", <<query>>) : query \in Sides}

\* The form is submitted in single-topic mode.
searchReturns ==
  /\ probe.op = "search"
  /\ probe.result = <<>>
  /\ probe' = [probe EXCEPT !.result =
                 <<handleSubmit(isLoading, FALSE, probe.args[1], <<>>)>>]
  /\ onSearch(handleSubmit(isLoading, FALSE, probe.args[1], <<>>))
  /\ UNCHANGED pinVars

\* Topics of every length up to MaxTopicLen, and one of two lines (a title
\* returned by the service may hold a line break).
Alphabet ==
  <<"a", "b", "c", "d", "e", "f", "g", "h", "i", "j", "k", "l", "m",
    "n", "o", "p", "q", "r", "s", "t", "u", "v", "w", "x", "y", "z">>
TwoLines == <<"a", "\n", "b">>
FallbackTopics == {SubSeq(Alphabet, 1, n) : n \in 1..MaxTopicLen} \cup {TwoLines}

FallbackProbes == {Probe("createFallbackArt", <<topic>>) : topic \in FallbackTopics}

createFallbackArtReturns ==
  Returns("createFallbackArt", createFallbackArt(probe.args[1]))

\* Responses the three text operations are called with: every shape of text
\* around every payload, and a rejected call.
Shapes == {<<FALSE, "prose">>, <<FALSE, "malformed">>, <<FALSE, "json">>,
           <<TRUE, "json">>}
ResponsesWith(payloads) ==
  {Rejection(CHOOSE p \in payloads : TRUE)}
    \cup {Text(shape[1], shape[2], p) : shape \in Shapes, p \in payloads}

AmbiguityPayloads ==
  {EmptyAmbiguity, NotAmbiguous, AmbiguousNoMeanings, AmbiguousStock,
   [AmbiguousStock EXCEPT !.is_ambiguous = JStr(<<"t", "r", "u", "e">>)],
   [AmbiguousStock EXCEPT !.is_ambiguous = JNum(1)],
   [AmbiguousStock EXCEPT !.is_ambiguous = Null],
   [AmbiguousStock EXCEPT !.meanings = JStr(<<"f", "i">>)]}

AmbiguityProbes ==
  {Probe("checkForAmbiguity", <<Stock, r>>) : r \in ResponsesWith(AmbiguityPayloads)}

checkForAmbiguityReturns ==
  Returns("checkForAmbiguity", checkForAmbiguity(probe.args[1], probe.args[2]))

\* Values of a field that are neither a text nor an array: the falsy ones,
\* and a truthy one of each type that has one.
Scalars == {Null, JBool(FALSE), JBool(TRUE), JNum(0), JNum(1)}

DefinitionPayloads ==
  {EmptyDefinition, NoSummaryDefinition, ValidDefinition,
   [ValidDefinition EXCEPT !.summary = JStr(<<>>)],
   [ValidDefinition EXCEPT !.key_concepts = Undefined],
   [ValidDefinition EXCEPT !.key_concepts = JArr(<<>>)],
   [ValidDefinition EXCEPT !.key_concepts = JStr(<<>>)],
   [ValidDefinition EXCEPT !.key_concepts = JStr(<<"k">>)]}
    \cup {[ValidDefinition EXCEPT !.summary = x] : x \in Scalars}
    \cup {[ValidDefinition EXCEPT !.key_concepts = x] : x \in Scalars}

DefinitionProbes ==
  {Probe("generateDefinition", <<Stock, r>>) : r \in ResponsesWith(DefinitionPayloads)}

generateDefinitionReturns ==
  Returns("generateDefinition", generateDefinition(probe.args[1], probe.args[2]))

EmptyArraysComparison ==
  [ValidComparison EXCEPT !.similarities = JArr(<<>>), !.differences = JArr(<<>>)]
ComparisonPayloads ==
  {EmptyComparison, NoConclusionComparison, ValidComparison,
   EmptyArraysComparison,
   [ValidComparison EXCEPT !.introduction = Undefined],
   [ValidComparison EXCEPT !.similarities = Undefined],
   [ValidComparison EXCEPT !.differences = Undefined],
   [EmptyArraysComparison EXCEPT !.introduction = JStr(<<>>)],
   [EmptyArraysComparison EXCEPT !.conclusion = JStr(<<>>)],
   [ValidComparison EXCEPT !.similarities = JStr(<<"k">>)],
   [ValidComparison EXCEPT !.differences = JStr(<<>>)]}
    \cup {[ValidComparison EXCEPT !.introduction = x] : x \in Scalars}
    \cup {[ValidComparison EXCEPT !.similarities = x] : x \in Scalars}
    \cup {[ValidComparison EXCEPT !.differences = x] : x \in Scalars}
    \cup {[ValidComparison EXCEPT !.conclusion = x] : x \in Scalars}

GenerateComparisonProbes ==
  {Probe("generateComparison", <<Gravity, Entropy, r>>) :
     r \in ResponsesWith(ComparisonPayloads)}

generateComparisonReturns ==
  Returns("generateComparison",
          generateComparison(probe.args[1], probe.args[2], probe.args[3]))

ArtPayloads ==
  {EmptyArt, ValidArt, BlankArt, [ValidArt EXCEPT !.art = JNum(1)],
   [ValidArt EXCEPT !.art = JStr(<<>>)]}

\* One response for each call the retry budget allows.
ArtProbes ==
  {Probe("generateAsciiArt", <<Stock, responses>>) :
     responses \in [1..maxRetries -> ResponsesWith(ArtPayloads)]}

generateAsciiArtReturns ==
  Returns("generateAsciiArt", generateAsciiArt(probe.args[1], probe.args[2]))

Probes ==
  ComparisonProbes \cup SearchProbes \cup FallbackProbes \cup AmbiguityProbes
    \cup DefinitionProbes \cup GenerateComparisonProbes \cup ArtProbes

FunctionsInit == InitApp /\ apiKey /\ probe \in Probes

\* The application takes steps of its own: the answer to the ambiguity check
\* of the cycle that runs is a choice, which enables the search bar, and a
\* submitted search starts the cycle of its topic.
FunctionsNext ==
  \/ \E r \in ChoiceResponses : AmbiguityResponse(activeCycle, r)
  \/ compareReturns
  \/ searchReturns
  \/ createFallbackArtReturns
  \/ checkForAmbiguityReturns
  \/ generateDefinitionReturns
  \/ generateComparisonReturns
  \/ generateAsciiArtReturns

FunctionsSpec == FunctionsInit /\ [][FunctionsNext]_vars

-----------------------------------------------------------------------------
(* C16: for all non-empty topics A and B without the separator inside,      *)
(* submitting the comparison of A and B (in a search bar that is not        *)
(* disabled by loading) makes the resolution cycle split the composite into *)
(* exactly trimmed A and trimmed B.                                         *)
C16_ComparisonRoundTrip ==
  [][(/\ compareReturns
      /\ ~isLoading
      /\ \A i \in 1..2 : /\ trim(probe.args[i]) # <<>>
                         /\ ~isComparison(probe.args[i]))
       => /\ probe'.result[1].submitted
          /\ probe'.result[1].isComparison
          /\ probe'.result[1].sides = <<trim(probe.args[1]), trim(probe.args[2])>>]_vars

(* C17: a cycle for a comparison topic whose split leaves one side empty    *)
(* makes no call to the generation service, and while it is the active      *)
(* cycle no content is displayed for it.                                    *)
C17_OneSidedComparisonMakesNoCall ==
  \A c \in CycleIds :
    (/\ isComparison(cycles[c].topic)
     /\ \E i \in 1..2 : comparisonArgs(cycles[c].topic)[i] = <<>>)
      => /\ \A k \in calls : k.cycle # c
         /\ (c = activeCycle /\ ~cycles[c].isCancelled) => content = Null

\* The lines of a text: String.prototype.split('\n')
RECURSIVE linesOf(_)
linesOf(s) ==
  IF \E i \in 1..Len(s) : s[i] = "\n"
    THEN LET i == CHOOSE j \in 1..Len(s) :
                    s[j] = "\n" /\ \A k \in 1..(j - 1) : s[k] # "\n"
         IN <<SubSeq(s, 1, i - 1)>> \o linesOf(SubSeq(s, i + 1, Len(s)))
    ELSE <<s>>

(* C18: for every topic the fallback art has exactly 3 lines of equal       *)
(* width, and its middle line contains the whole topic when the topic has   *)
(* at most 20 characters, and its first 17 characters followed by "..."     *)
(* when it has more.                                                        *)
C18_FallbackBoxShape ==
  (probe.op = "createFallbackArt" /\ probe.result # <<>>)
    => LET topic == probe.args[1]
           rows == linesOf(probe.result[1].v)
       IN /\ Len(rows) = 3
          /\ Len(rows[1]) = Len(rows[2]) /\ Len(rows[2]) = Len(rows[3])
          /\ IF Len(topic) <= 20
               THEN includes(rows[2], topic)
               ELSE includes(rows[2], SubSeq(topic, 1, 17) \o <<".", ".", ".">>)

\* A response whose text is a JSON object: fulfilled, delimited by braces,
\* and parsable.
isJsonObject(r) ==
  r.status = "fulfilled" /\ braceDelimited(r) /\ r.body = "json"

(* C19: checkForAmbiguity never propagates a transport, parse or validation *)
(* failure: when the service is unreachable, the text is not delimited by   *)
(* braces, the JSON does not parse, or is_ambiguous is missing or not a     *)
(* boolean, it returns "not ambiguous".                                     *)
C19_AmbiguityFailureIsNotAmbiguous ==
  (probe.op = "checkForAmbiguity" /\ probe.result # <<>>)
    => LET r == probe.args[2]
       IN (~isJsonObject(r) \/ r.value.is_ambiguous.t # "boolean")
            => probe.result[1] = Fulfilled(NotAmbiguous)

\* checkForAmbiguity has returned on a parsed payload whose is_ambiguous is a
\* text, and on a rejected call.
C19_Witness ==
  /\ probe.op = "checkForAmbiguity" /\ probe.result # <<>>
  /\ isJsonObject(probe.args[2])
  /\ probe.args[2].value.is_ambiguous.t = "string"
  /\ probe.result[1] = Fulfilled(NotAmbiguous)

\* A field of a payload is present / is present and not the empty text.
present(x) == x.t # "undefined"
nonEmpty(x) == present(x) /\ x # JStr(<<>>)
\* The values of a parsed payload that count as false: null, false, zero and
\* the empty text, and a field that is missing.
falsy(x) == x \in {Undefined, Null, JBool(FALSE), JNum(0), JStr(<<>>)}

\* The failure of a content operation that the caller sees: one error whose
\* text starts with the operation's sentence about its topics and ends with
\* the cause.
normalizedFailure(op, topics, out) ==
  /\ ~out.ok
  /\ out.message[1].template =
       (IF op = "generateDefinition" THEN "Could not generate content for"
        ELSE "Could not generate comparison for")
  /\ out.message[1].topics = topics
  /\ out.message[1].cause # ""

\* The content operation probed, its topics, its response and its outcome.
contentCall ==
  [op |-> probe.op,
   topics |-> SubSeq(probe.args, 1, Len(probe.args) - 1),
   r |-> probe.args[Len(probe.args)],
   out |-> probe.result[1]]
contentReturned ==
  /\ probe.op \in {"generateDefinition", "generateComparison"}
  /\ probe.result # <<>>

\* The required fields of the claim, as stated: a non-empty summary and
\* key_concepts; introduction, similarities, differences and conclusion.
fieldsPresent(op, data) ==
  IF op = "generateDefinition"
    THEN nonEmpty(data.summary) /\ present(data.key_concepts)
    ELSE /\ present(data.introduction) /\ present(data.similarities)
         /\ present(data.differences) /\ present(data.conclusion)

\* Every required field counts as true.
fieldsTruthy(op, data) ==
  IF op = "generateDefinition"
    THEN ~falsy(data.summary) /\ ~falsy(data.key_concepts)
    ELSE /\ ~falsy(data.introduction) /\ ~falsy(data.similarities)
         /\ ~falsy(data.differences) /\ ~falsy(data.conclusion)

(* C20: generateDefinition and generateComparison fail with a normalized    *)
(* error whenever the service is unreachable, the text is not a JSON        *)
(* object or a required field is missing (a non-empty summary and           *)
(* key_concepts; introduction, similarities, differences, conclusion), and  *)
(* they succeed when all required fields are present, even if the arrays    *)
(* are empty.                                                               *)
C20_FailsUnlessFieldsPresent ==
  contentReturned
    => LET c == contentCall
       IN IF isJsonObject(c.r) /\ fieldsPresent(c.op, c.r.value)
            THEN c.out.ok
            ELSE normalizedFailure(c.op, c.topics, c.out)

(* C20, amended: they fail with a normalized error whenever the service is  *)
(* unreachable, the text is not a JSON object, or a required field is       *)
(* missing or has a value that counts as false (null, false, zero, the      *)
(* empty text), and they succeed when every required field has a value      *)
(* that counts as true, as an empty array does.                             *)
C20_FailsUnlessFieldsTruthy ==
  contentReturned
    => LET c == contentCall
       IN IF isJsonObject(c.r) /\ fieldsTruthy(c.op, c.r.value)
            THEN c.out.ok
            ELSE normalizedFailure(c.op, c.topics, c.out)

\* generateDefinition has failed on a payload whose key_concepts is false.
C20_Witness ==
  /\ probe.op = "generateDefinition" /\ probe.result # <<>>
  /\ probe.args[2] =
       Text(FALSE, "json", [ValidDefinition EXCEPT !.key_concepts = JBool(FALSE)])
  /\ normalizedFailure("generateDefinition", <<Stock>>, probe.result[1])

\* A response that parses to an art string that is not empty after trimming.
parsesToArt(r) ==
  /\ r.status = "fulfilled" /\ r.body = "json"
  /\ r.value.art.t = "string" /\ trim(r.value.art.v) # <<>>

(* C21: generateAsciiArt makes at most maxRetries service calls (one),      *)
(* returns the art of the first response that parses to an art string that  *)
(* is not empty after trimming, and fails once the budget is exhausted      *)
(* without such a response.                                                 *)
C21_ArtWithinRetryBudget ==
  (probe.op = "generateAsciiArt" /\ probe.result # <<>>)
    => LET responses == probe.args[2]
           done == probe.result[1]
           good == {i \in 1..maxRetries : parsesToArt(responses[i])}
       IN /\ maxRetries = 1
          /\ done.calls <= maxRetries
          /\ IF good # {}
               THEN LET first == CHOOSE i \in good : \A j \in good : i <= j
                    IN /\ done.calls = first
                       /\ done.out.ok
                       /\ done.out.value[1].v = responses[first].value.art.v
               ELSE ~done.out.ok /\ done.calls = maxRetries

\* generateAsciiArt has failed after its one call was answered with an art
\* string of white space.
C21_Witness ==
  /\ probe.op = "generateAsciiArt" /\ probe.result # <<>>
  /\ probe.args[2][1] = Text(FALSE, "json", BlankArt)
  /\ ~probe.result[1].out.ok
  /\ probe.result[1].calls = 1

\* What a service operation returns when called with args, the last of which
\* is the response (for generateAsciiArt, the responses) of the service.
serviceOperations ==
  {"checkForAmbiguity", "generateDefinition", "generateComparison",
   "generateAsciiArt"}
returned(op, args) ==
  CASE op = "checkForAmbiguity" -> checkForAmbiguity(args[1], args[2])
    [] op = "generateDefinition" -> generateDefinition(args[1], args[2])
    [] op = "generateComparison" -> generateComparison(args[1], args[2], args[3])
    [] op = "generateAsciiArt" -> generateAsciiArt(args[1], args[2])

\* The same arguments with the code fence taken off the response.
unwrapped(op, args) ==
  IF op = "generateAsciiArt"
    THEN <<args[1], [i \in DOMAIN args[2] |-> stripFence(args[2][i])]>>
    ELSE [args EXCEPT ![Len(args)] = stripFence(args[Len(args)])]

\* The response of the call is a valid payload inside a code fence.
fencedPayload(op, args) ==
  LET r == IF op = "generateAsciiArt" THEN args[2][1] ELSE args[Len(args)]
  IN r.status = "fulfilled" /\ r.fenced /\ r.body = "json"

(* C22: each of the four service operations handles a valid payload wrapped *)
(* in a code fence as it handles the unwrapped payload: the fence is        *)
(* stripped before the brace check and the parse.                           *)
C22_FenceStrippedByEveryOperation ==
  (probe.op \in serviceOperations /\ probe.result # <<>>
     /\ fencedPayload(probe.op, probe.args))
    => probe.result[1] = returned(probe.op, unwrapped(probe.op, probe.args))

\* The fields of a payload that are required to be arrays.
arrayFields(op, data) ==
  CASE op = "generateDefinition" -> {data.key_concepts}
    [] op = "generateComparison" -> {data.similarities, data.differences}
    [] op = "checkForAmbiguity" ->
         IF data.is_ambiguous = JBool(TRUE) THEN {data.meanings} ELSE {}

(* C23: response validation rejects every payload in which a field that is  *)
(* required to be an array (key_concepts, similarities, differences,        *)
(* meanings of an ambiguous result) is present but is not an array: the     *)
(* content operations fail on it and checkForAmbiguity does not return it.  *)
C23_NonArrayFieldRejected ==
  (/\ probe.op \in {"checkForAmbiguity", "generateDefinition", "generateComparison"}
   /\ probe.result # <<>>
   /\ isJsonObject(probe.args[Len(probe.args)])
   /\ \E x \in arrayFields(probe.op, probe.args[Len(probe.args)].value) :
        present(x) /\ x.t # "array")
    => IF probe.op = "checkForAmbiguity"
         THEN probe.result[1].value[1].meanings.t \in {"array", "undefined"}
         ELSE ~probe.result[1].ok

\* The jobs of a cycle, and the cycle having one that has not settled.
Jobs == {"ambiguity", "content", "art"}
running(cy) == \E job \in Jobs : cy[job] = "pending"

\* An operation of cycle c waits for the service: it has not settled and no
\* rejection of it is queued.
awaitingService(c, job) ==
  /\ cycles[c][job] = "pending"
  /\ ~\E i \in DOMAIN microtasks : microtasks[i] = [cycle |-> c, job |-> job]

(* C24: when no access credential is configured, no operation ever waits    *)
(* for the generation service, and every resolution cycle ends with an      *)
(* error visible and the loading flag false.                                *)
C24_NoKeyNoCallAndError ==
  /\ [](~apiKey => \A c \in CycleIds : \A job \in Jobs : ~awaitingService(c, job))
  /\ [][\A c \in CycleIds :
          (~apiKey /\ running(cycles[c]) /\ ~running(cycles'[c]))
            => (error' # Null /\ ~isLoading')]_vars

\* Without a credential the cycle of a comparison has ended: its content call
\* and its art call have both been rejected.
C24_Witness ==
  /\ ~apiKey /\ idle
  /\ isComparison(cycles[activeCycle].topic)
  /\ cycles[activeCycle].content = "settled"
  /\ cycles[activeCycle].art = "settled"
  /\ error # Null /\ ~isLoading

-----------------------------------------------------------------------------
(* The pinboard.                                                            *)

\* `item-${Date.now()}`
newId(now) == <<"item-", now>>

\* addPinnedItem: the item, with an identifier made of the clock's reading,
\* goes to the end, and the pinboard is shown.
addPinnedItem(item, now) ==
  /\ pinnedItems' = Append(pinnedItems,
                           [id |-> newId(now), type |-> item.type,
                            content |-> item.content,
                            x |-> item.x, y |-> item.y])
  /\ isPinboardVisible' = TRUE

\* updatePinnedItemPosition: prev.map(item => item.id === id ? {...item, x, y} : item)
updatePinnedItemPosition(id, x, y) ==
  /\ pinnedItems' = [i \in DOMAIN pinnedItems |->
                       IF pinnedItems[i].id = id
                         THEN [pinnedItems[i] EXCEPT !.x = x, !.y = y]
                         ELSE pinnedItems[i]]
  /\ UNCHANGED isPinboardVisible

\* Pinboard.handleDrop at (x, y): the identifier carried by the drag of a
\* pinned item ("" if none), else the dragged data; data that does not parse
\* is logged and dropped.
handleDrop(movedItemId, droppedData, x, y, now) ==
  /\ idle
  /\ IF movedItemId # <<>>
       THEN /\ updatePinnedItemPosition(movedItemId, x, y)
            /\ lastEvent' = Event("movePinnedItem", 0, FALSE, "")
     ELSE IF droppedData.body = "json"
       THEN /\ Len(pinnedItems) < MaxPins
            /\ addPinnedItem([type |-> droppedData.value.type,
                              content |-> droppedData.value.content,
                              x |-> x, y |-> y], now)
            /\ lastEvent' = Event("addPinnedItem", 0, FALSE, "")
     ELSE UNCHANGED <<pinVars, lastEvent>>
  /\ UNCHANGED <<history, visible, temperature, apiKey, cycles, calls,
                 microtasks, probe>>

\* What can be dragged onto the pinboard: a key concept, something that is
\* no JSON, or nothing.
DroppedData ==
  { [body |-> "none", value |-> <<>>],
    [body |-> "malformed", value |-> <<>>],
    [body |-> "json", value |-> [type |-> "concept", content |-> "k"]] }
Positions == {<<0, 0>>, <<3, 4>>}

\* Date.now() does not go back: no reading is below one already taken.
Readings ==
  {now \in 1..MaxTime :
     \A i \in DOMAIN pinnedItems : pinnedItems[i].id[2] <= now}

\* onTogglePinboard={() => setIsPinboardVisible(prev => !prev)}
togglePinboard ==
  /\ idle
  /\ isPinboardVisible' = ~isPinboardVisible
  /\ lastEvent' = Event("togglePinboard", 0, FALSE, "")
  /\ UNCHANGED <<history, visible, temperature, apiKey, cycles, calls,
                 microtasks, probe, pinnedItems>>

\* onClose={() => setIsPinboardVisible(false)}
closePinboard ==
  /\ idle
  /\ isPinboardVisible' = FALSE
  /\ lastEvent' = Event("closePinboard", 0, FALSE, "")
  /\ UNCHANGED <<history, visible, temperature, apiKey, cycles, calls,
                 microtasks, probe, pinnedItems>>

PinInit == Init /\ apiKey

PinNext ==
  \/ \E now \in 1..MaxTime : \E at \in Positions :
       handleDrop(newId(now), CHOOSE d \in DroppedData : TRUE, at[1], at[2], now)
  \/ \E droppedData \in DroppedData : \E at \in Positions : \E now \in Readings :
       handleDrop(<<>>, droppedData, at[1], at[2], now)
  \/ Len(cycles) < MaxPinCycles /\ navigateTo(Stock)
  \/ \E index \in 0..(Len(history) - 1) : navigateToHistoryIndex(index)
  \/ Len(cycles) < MaxPinCycles /\ pickRandom(0)
  \/ togglePinboard
  \/ closePinboard
  \/ \E c \in CycleIds :
       \E r \in {Text(FALSE, "json", NotAmbiguous), Text(FALSE, "json", AmbiguousStock)} :
         AmbiguityResponse(c, r)
  \/ \E c \in CycleIds :
       \E r \in {Rejection(EmptyDefinition), Text(FALSE, "json", ValidDefinition)} :
         ContentResponse(c, r)
  \/ \E c \in CycleIds :
       \E r \in {Rejection(EmptyArt), Text(FALSE, "json", ValidArt)} :
         ArtResponse(c, r)

PinSpec == PinInit /\ [][PinNext]_vars

(* C25: after any sequence of addPinnedItem and movePinnedItem calls all    *)
(* pinned items have pairwise distinct identifiers.                         *)
C25_PinnedIdsDistinct ==
  \A i, j \in DOMAIN pinnedItems :
    pinnedItems[i].id = pinnedItems[j].id => i = j

\* The items whose position or anything else differs after the step.
changedItems ==
  {i \in DOMAIN pinnedItems :
     i \notin DOMAIN pinnedItems' \/ pinnedItems'[i] # pinnedItems[i]}

(* C26: movePinnedItem(id, x, y) changes only the position of the item      *)
(* with that identifier: its identifier, type and content, every other      *)
(* item, and the number and order of the items stay as they were; with an   *)
(* unknown identifier the pinboard is unchanged.  No operation ever         *)
(* removes a pinned item.                                                   *)
C26_MoveChangesOnePosition ==
  [][/\ \A now \in 1..MaxTime : \A at \in Positions :
          handleDrop(newId(now), CHOOSE d \in DroppedData : TRUE,
                     at[1], at[2], now)
            => /\ Len(pinnedItems') = Len(pinnedItems)
               /\ Cardinality(changedItems) <= 1
               /\ \A i \in DOMAIN pinnedItems :
                    /\ pinnedItems'[i].id = pinnedItems[i].id
                    /\ pinnedItems'[i].type = pinnedItems[i].type
                    /\ pinnedItems'[i].content = pinnedItems[i].content
                    /\ IF pinnedItems[i].id = newId(now)
                         THEN pinnedItems'[i].x = at[1] /\ pinnedItems'[i].y = at[2]
                         ELSE pinnedItems'[i] = pinnedItems[i]
     /\ Len(pinnedItems') >= Len(pinnedItems)
     /\ \A i \in DOMAIN pinnedItems : pinnedItems'[i].id = pinnedItems[i].id]_vars

(* C27: in every resolution cycle for a non-comparison topic no content or  *)
(* art call is issued or outstanding while the cycle's ambiguity check is   *)
(* outstanding: both fetches start after the response of the check.         *)
C27_FetchesAfterAmbiguityCheck ==
  \A c \in CycleIds :
    (~isComparison(cycles[c].topic) /\ cycles[c].ambiguity = "pending")
      => /\ cycles[c].content = "none" /\ cycles[c].art = "none"
         /\ \A op \in {"generateDefinition", "generateComparison", "generateAsciiArt"} :
              CallsOf(c, op) = {}

\* The ambiguity check of a cycle for a single topic has been answered and
\* both fetches of the cycle are outstanding.
C27_Witness ==
  \E c \in CycleIds :
    /\ ~isComparison(cycles[c].topic)
    /\ cycles[c].ambiguity = "settled"
    /\ cycles[c].content = "pending" /\ cycles[c].art = "pending"
    /\ CallsOf(c, "generateDefinition") # {}
    /\ CallsOf(c, "generateAsciiArt") # {}

(* C28: in the active cycle the content fetch and the art fetch are applied *)
(* independently.  The completion of the content fetch sets content, error  *)
(* and the loading flag from its own outcome and leaves the art alone; the  *)
(* completion of the art fetch sets the art from its own outcome and leaves *)
(* content, error and the loading flag alone; each does so whether or not   *)
(* the other has completed, so the final visible state does not depend on   *)
(* which of the two completes first.                                        *)
C28_ContentAndArtIndependent ==
  [][ \A c \in CycleIds :
        ~cycles[c].isCancelled
          => /\ \A r \in ContentResponsesOf(c) :
                  (ContentCompletes(c) /\ ContentResponse(c, r))
                    => /\ asciiArt' = asciiArt
                       /\ ~isLoading'
                       /\ IF contentOutcome(c, r).ok
                            THEN /\ content' = contentOutcome(c, r).value[1]
                                 /\ error' = error
                            ELSE /\ content' = Null
                                 /\ error'.v[1] = contentOutcome(c, r).message[1]
             /\ \A r \in ArtResponses :
                  (ArtCompletes(c) /\ ArtResponse(c, r))
                    => /\ content' = content /\ error' = error
                       /\ isLoading' = isLoading
                       /\ asciiArt' = IF asciiArtAttempt(r).ok
                                        THEN asciiArtAttempt(r).value[1]
                                        ELSE createFallbackArt(cycles[c].topic)
    ]_vars

\* The art of the active cycle arrived after its content fetch had failed:
\* the error and the art are both on display.
C28_Witness ==
  /\ lastEvent.kind = "art" /\ ~lastEvent.stale
  /\ lastEvent.result = "fulfilled"
  /\ cycles[activeCycle].content = "settled"
  /\ error # Null /\ content = Null /\ ~isLoading
  /\ asciiArt = [t |-> "AsciiArtData", v |-> ValidArt.art.v]

(* C29: no completion of a service call (ambiguity check, content fetch or  *)
(* art fetch, successful or failed, stale or not) changes history or the    *)
(* pinned items; history is changed only by navigateTo,                     *)
(* navigateToHistoryIndex and pickRandom, the pinned items only by          *)
(* addPinnedItem and movePinnedItem.                                        *)
C29_CompletionsKeepHistoryAndPins ==
  [][/\ \A c \in CycleIds :
          (AmbiguityCompletes(c) \/ ContentCompletes(c) \/ ArtCompletes(c))
            => (history' = history /\ pinnedItems' = pinnedItems)
     /\ history' # history
          => lastEvent'.kind \in {"navigateTo", "navigateToHistoryIndex", "pickRandom"}
     /\ pinnedItems' # pinnedItems
          => lastEvent'.kind \in {"addPinnedItem", "movePinnedItem"}]_vars

\* The content fetch of a cancelled cycle has just completed while an item is
\* pinned and the history holds a second topic.
C29_Witness ==
  /\ lastEvent.kind = "content" /\ lastEvent.stale
  /\ pinnedItems # <<>>
  /\ Len(history) = 2

-----------------------------------------------------------------------------
(* The renders of App one by one: a handler's state updates are committed   *)
(* in a render of their own, and the effect whose dependencies changed runs *)
(* after that render and before any other event.                            *)

\* The effect of the committed render has yet to run.
EffectPending == <<[cycle |-> 0, job |-> "effect"]>>

\* handleTopicChange and the render that commits its two updates
handleTopicChangeCommits(topic, kind) ==
  /\ idle /\ topicChanges(topic)
  /\ Len(cycles) < MaxCycles
  /\ ambiguityOptions' = Null
  /\ history' = Append(history, trim(topic))
  /\ microtasks' = EffectPending
  /\ lastEvent' = Event(kind, 0, FALSE, "")
  /\ UNCHANGED <<content, isLoading, error, asciiArt, temperature, apiKey,
                 cycles, calls, probe, pinVars>>

\* handleRandom and the render that commits its six updates
handleRandomCommits(randomIndex) ==
  /\ idle /\ hasCurrentTopic(history)
  /\ Len(cycles) < MaxCycles
  /\ SetVisible(cleanPage(Vis))
  /\ history' = <<randomWordFor(currentTopic, randomIndex)>>
  /\ microtasks' = EffectPending
  /\ lastEvent' = Event("pickRandom", 0, FALSE, "")
  /\ UNCHANGED <<temperature, apiKey, cycles, calls, probe, pinVars>>

\* The cleanup of the previous run of the effect, then its new run up to the
\* first await of fetchContent.
useEffectRuns ==
  /\ microtasks = EffectPending
  /\ LET c == Len(cycles) + 1
     IN /\ SetVisible(cleanPage(Vis))
        /\ cycles' = Append(cleanup(cycles), newCycle(currentTopic, temperature))
        /\ IF isComparison(currentTopic)
             THEN /\ calls' = calls \cup fetchCalls(c, currentTopic, temperature)
                  /\ microtasks' = IF apiKey THEN <<>> ELSE fetchRejections(c)
             ELSE /\ calls' = calls \cup
                       {Call(c, "checkForAmbiguity", <<currentTopic>>, <<temperature>>)}
                  /\ microtasks' = IF apiKey THEN <<>>
                                   ELSE <<[cycle |-> c, job |-> "ambiguity"]>>
  /\ lastEvent' = Event("effect", 0, FALSE, "")
  /\ UNCHANGED <<history, temperature, apiKey, probe, pinVars>>

CommitInit == Init /\ apiKey

CommitNext ==
  \/ \E topic \in {Stock, GravityVsEntropy} :
       handleTopicChangeCommits(topic, "navigateTo")
  \/ \E i \in 1..2 :
       /\ ambiguityOptions # Null
       /\ i \in 1..Len(ambiguityOptions.v)
       /\ handleTopicChangeCommits(ambiguityOptions.v[i].title, "selectMeaning")
  \/ \E randomIndex \in 0..(Len(UNIQUE_WORDS) - 1) : handleRandomCommits(randomIndex)
  \/ useEffectRuns
  \/ \E c \in CycleIds : \E r \in AmbiguityResponses : AmbiguityResponse(c, r)
  \/ \E c \in CycleIds : \E r \in ContentResponsesOf(c) : ContentResponse(c, r)
  \/ \E c \in CycleIds : \E r \in ArtResponses : ArtResponse(c, r)

CommitSpec == CommitInit /\ [][CommitNext]_vars

(* C30: the loading flag is true exactly when none of content, ambiguity    *)
(* options and error is populated: while it is true none of the three is    *)
(* visible, and once it is false exactly one of them is.                    *)
C30_LoadingIffNothingVisible ==
  LET shown == {x \in {"content", "ambiguityOptions", "error"} : Vis[x] # Null}
  IN /\ isLoading <=> shown = {}
     /\ ~isLoading => Cardinality(shown) = 1

(* C33: after any sequence of navigateTo, navigateToHistoryIndex and        *)
(* pickRandom every history entry is a non-empty trimmed string and no two  *)
(* adjacent entries are equal under case-insensitive comparison.            *)
C33_HistoryEntriesWellFormed ==
  /\ \A i \in DOMAIN history : history[i] # <<>> /\ trim(history[i]) = history[i]
  /\ \A i \in 1..(Len(history) - 1) : ~sameTopic(history[i], history[i + 1])

\* A topic typed with white space around it has been appended, trimmed,
\* behind another entry.
C33_Witness ==
  /\ Len(history) >= 2
  /\ history[Len(history)] = trim(PaddedStock)
  /\ probe.op = "navigateTo"

(* C32: setting the temperature to a value different from the current one   *)
(* supersedes the current cycle and starts a new cycle for the same current *)
(* topic with the new temperature: content, art, ambiguity options and      *)
(* error are cleared, the loading flag is set and history is unchanged; the *)
(* results of a superseded cycle change nothing that is visible.            *)
C32_TemperatureRestartsCycle ==
  [][/\ temperature' # temperature
          => /\ history' = history
             /\ Len(cycles') = Len(cycles) + 1
             /\ cycles'[Len(cycles')].topic = currentTopic
             /\ cycles'[Len(cycles')].temperature = temperature'
             /\ ~cycles'[Len(cycles')].isCancelled
             /\ \A c \in CycleIds : cycles'[c].isCancelled
             /\ content' = Null /\ asciiArt' = Null
             /\ ambiguityOptions' = Null /\ error' = Null
             /\ isLoading'
             /\ \E k \in calls' \ calls :
                  k.cycle = Len(cycles') /\ k.temperature = <<temperature'>>
     /\ \A c \in CycleIds :
          (/\ cycles[c].isCancelled
           /\ AmbiguityCompletes(c) \/ ContentCompletes(c) \/ ArtCompletes(c))
            => UNCHANGED visible]_vars

\* The page of the old temperature was shown with its art still awaited when
\* the temperature was changed; that art arrives while the cycle of the new
\* temperature, for the same topic, is loading, and is not shown.
C32_Witness ==
  /\ lastEvent.kind = "art" /\ lastEvent.stale
  /\ cycles[lastEvent.cycle].content = "settled"
  /\ cycles[lastEvent.cycle].temperature # temperature
  /\ cycles[lastEvent.cycle].topic = currentTopic
  /\ lastEvent.cycle = activeCycle - 1
  /\ cycles[activeCycle].temperature = temperature
  /\ isLoading /\ content = Null /\ asciiArt = Null

-----------------------------------------------------------------------------
(* Progress of the resolution cycle.                                       *)

\* The reaction queue is drained: a rejection of a client without key is
\* handled as soon as the running code returns.
ReactionsRun ==
  /\ WF_vars(AmbiguityConfigRejection)
  /\ WF_vars(ContentConfigRejection)
  /\ WF_vars(ArtConfigRejection)

\* Nothing is assumed of the service or of the user.
LiveSpec == Init /\ [][Next]_vars /\ ReactionsRun

\* The ambiguity check or the content call of the cycle of the latest run of
\* the effect is waiting for the service.
Unanswered ==
  \/ awaitingService(activeCycle, "ambiguity")
  \/ awaitingService(activeCycle, "content")

\* A step of navigation or of the temperature slider that has an effect.
Supersedes ==
  \/ history' # history
  \/ temperature' # temperature
  \/ Len(cycles') # Len(cycles)

(* C31: if from some point on no navigation and no temperature change      *)
(* occur, and the ambiguity check and the content call of the active cycle *)
(* each eventually respond, then the loading flag eventually becomes false *)
(* and stays false, whether or not the art call of that cycle responds.    *)
C31_LoadingEnds ==
  \/ []<><<Supersedes>>_vars
  \/ []<>Unanswered
  \/ <>[](~isLoading)

\* The content of the active cycle has been published under a live key and
\* the page is no longer loading while the art call has not responded.
C31_Witness ==
  /\ ~isLoading
  /\ lastEvent.kind = "content" /\ lastEvent.cycle = activeCycle
  /\ cycles[activeCycle].content = "settled"
  /\ cycles[activeCycle].art = "pending"
  /\ cycles[activeCycle].attempt = 1

====
